---- MODULE Spec2Model ----
(***************************************************************************)
(* Task Lifecycle Engine of the Zoya agent: claim-by-move, processing,     *)
(* retry / quarantine, HITL routing, the orchestrator process lock, the    *)
(* error recovery engine (with_retry, ComponentHealth, offline queue) and  *)
(* the Ralph Wiggum self-healing loop, the monitor of ralph_loop.py and    *)
(* the descriptor files as concurrent readers find them.                   *)
(*                                                                         *)
(* The specifications share the variables:                                 *)
(*   Spec        engines, process lock, task descriptors, human moves      *)
(*   SpecIngest  Spec over descriptors of any source                       *)
(*   SpecCycle   one engine that runs cycles for ever                      *)
(*   SpecHitl    the approval rules over every processed descriptor        *)
(*   SpecHealth  safe_call / with_retry / ComponentHealth / offline queue  *)
(*   SpecAlerts  the alert files of error_recovery.py, with the clock      *)
(*   SpecRalph   run_ralph_loop and check_and_trigger_for_stuck            *)
(*   SpecRecover one engine with kill and restart, and the watchdog        *)
(*   SpecLock    Spec with a process lock left behind by any process       *)
(*   SpecRetry   with_retry under every category, forced or classified     *)
(*   SpecBatch   the actionable list run_cycle builds from Needs_Action    *)
(*   SpecFail    one engine whose backend may fail over a damaged header   *)
(*   SpecMon     run_ralph_checks over a changing vault                    *)
(*   SpecFs      the handlers file operation by file operation             *)
(*   SpecBackoff the delays of with_retry                                  *)
(*   SpecClassify classify_error over every message                        *)
(***************************************************************************)
EXTENDS Integers, Sequences, FiniteSets, TLC

\* ------------------------------------------------------------------------
\* Bounds of the model
\* ------------------------------------------------------------------------
NumTasks == 1

NumEngines == 2

MaxRuns == 2

MaxN == 2

MaxCalls == 4

MaxTime == 1

\* Descriptors that are stuck, and that are stale, at one time.
MaxStuck == 1

\* The values random.random() takes.
RandSteps == 2

\* Words of an exception message.
MaxLen == 3

NumFiles == 11

\* ------------------------------------------------------------------------
\* Program constants
\* ------------------------------------------------------------------------
MAX_RETRIES == 3

MAX_BATCH_SIZE == 10

Tasks == 1..NumTasks

Engines == 1..NumEngines

\* State directories (config.py): Needs_Action, In_Progress, Pending_Approval,
\* Approved, Rejected, Done, Quarantine.
Dirs == {"available", "owned", "pending_approval", "approved", "rejected",
         "done", "quarantined"}

\* The two kinds of descriptor the watchers queue: a dropped file (with its
\* companion) and an email.
Sources == {"file_drop", "gmail"}

\* The watcher that queued task t: the inbox watcher (file drop, with a
\* companion file) for odd ids, the Gmail watcher (no companion) for even ids.
SourceOf(t) == IF t % 2 = 1 THEN "file_drop" ELSE "gmail"

VARIABLES
    dir,        \* dir[t]: the state directory that holds the descriptor of t
    comp,       \* comp[t]: directory of the companion payload, "none" if t has none
    fm,         \* fm[t]: the frontmatter of the descriptor of t
    pc,         \* pc[e]: position of engine process e
    batch,      \* batch[e]: the rest of run_cycle's actionable list
    cur,        \* cur[e]: the task engine e has claimed (0: none)
    lockFile,   \* orchestrator.lock.pid: 0 absent, -1 a dead PID or unparsable
                \* content, ForeignPid, else the PID of an engine
    fails,      \* history: fails[t] failed processing attempts of t
    wasPending, \* history: t has been in pending_approval
    stale,      \* stale[t]: the descriptor's mtime is older than the stuck threshold
    health,     \* ComponentHealth._status[c]: status and consecutive_failures
    compAlerts, \* compAlerts[c]: ALERT_component_down files written for c
    payAlerts,  \* calls of _create_payment_error_alert so far
    payFiles,   \* the PAYMENT_ERROR_<comp>_<ts>.md files in Pending_Approval
    now,        \* the wall clock, in seconds
    authAlerts, \* per component, the ALERT_auth_error files lying in Needs_Action
    queue,      \* queue[c]: the QUEUED_<ts>.json item files of c
    call,       \* the safe_call in progress (active FALSE: none)
    nCalls,     \* safe_calls started so far; the next payload is nCalls + 1
    replayed,   \* the handler calls of the latest step, in order: payload and result
    flushResult,\* what flush_offline_queue returned in the latest step
    events,     \* the component_recovered entries the latest step logged
    approvedPay,\* history: payloads a human has approved afresh
    rstate,     \* rstate[i]: the state record .ralph_state/task_<i>.json
    loop,       \* the run_ralph_loop in progress (active FALSE: none)
    nRuns,      \* run_ralph_loop calls made by callers so far
    inv,        \* history: inv[i] backend invocations of the unfinished loop for i, restarts included
                \* (counted up to one more than the highest ceiling)
    exhAlerts,  \* exhAlerts[i]: RALPH_EXHAUSTED alerts written for i
    lastResult, \* what run_ralph_loop has just returned (until the next call)
    listing,    \* the files of Needs_Action as run_cycle finds them: prefix, status, mtime
    actionable, \* the list run_cycle has built from the listing (ran FALSE: none)
    vault,      \* what the monitor's checks find: stuck, quarantined, awaiting approval,
                \* stale, and the RALPH_*.md files lying in Pending_Approval
    alerts_created, \* the alert types the latest run_ralph_checks has returned
    file,       \* file[t][d]: the descriptor file of t in directory d as a reader finds it
    op,         \* op[e]: the file operation engine e is in the middle of
    seen,       \* history: what concurrent readers have read from files being rewritten
    slept,      \* the delays the with_retry in progress has slept, one per failed attempt
    exc,        \* str(exc): the message of the exception classify_error is given, word by word
    classified  \* what classify_error has returned for exc ("none": not yet called)

taskVars == <<dir, comp, fm, fails, wasPending, stale>>

engVars == <<pc, batch, cur>>

healthVars == <<health, compAlerts, payAlerts, payFiles, now, authAlerts, queue, call, nCalls,
                replayed, flushResult, events, approvedPay>>

ralphVars == <<rstate, loop, nRuns, inv, exhAlerts, lastResult>>

monVars == <<vault, alerts_created>>

fsVars == <<file, op, seen>>

\* What the scans of the vault directories find.
scanVars == <<listing, actionable, monVars, fsVars>>

\* What with_retry and classify_error have computed.
retryVars == <<slept, exc, classified>>

vars == <<taskVars, engVars, lockFile, healthVars, ralphVars, scanVars, retryVars>>

\* ------------------------------------------------------------------------
\* Descriptor store (orchestrator.py)
\* ------------------------------------------------------------------------

\* The descriptor of a queued task as the engine finds it in Needs_Action:
\* that of a dropped file (watcher.py:170-181: type file_drop, no source key,
\* retry_count 0) and that of an email (gmail_watcher.py:259-269: type email,
\* source gmail, priority medium).  Absent keys carry the defaults the
\* readers apply (source file_drop, priority low, retry_count 0).
NewDescriptor(src) ==
    [status |-> "pending", retry_count |-> 0,
     type |-> IF src = "gmail" THEN "email" ELSE "file_drop",
     priority |-> IF src = "gmail" THEN "medium" ELSE "low",
     approval_required |-> "", approval_status |-> "", source |-> src,
     header |-> TRUE]

\* _read_frontmatter, lines 64-66, on a file in which the header pattern
\* ^---\s*\n(.*?)\n--- finds nothing: the empty dict, so that every reader
\* sees its defaults (no status, retry_count 0, source file_drop).
NoFrontmatter ==
    [status |-> "", retry_count |-> 0, type |-> "", priority |-> "low",
     approval_required |-> "", approval_status |-> "", source |-> "file_drop",
     header |-> FALSE]

\* _update_frontmatter: no header found, return without writing (lines
\* 78-80); else every key of updates is replaced or added and the file is
\* written anew.
_update_frontmatter(f, updates) ==
    IF ~f.header THEN f
    ELSE [k \in DOMAIN f |-> IF k \in DOMAIN updates THEN updates[k] ELSE f[k]]

\* What the reasoning backend may write into the descriptor it was given:
\* type, priority and the optional approval_required flag; the prompt asks it
\* to set status to done (orchestrator.py:163-168).  One result per approval
\* rule: high priority alone (approval for a gmail descriptor only), a high
\* priority invoice, the explicit flag.
BackendWrites ==
    {[type |-> "other", priority |-> "high", approval_required |-> ""],
     [type |-> "invoice", priority |-> "high", approval_required |-> ""],
     [type |-> "other", priority |-> "low", approval_required |-> "true"]}

BackendRewrite(f, w) ==
    [f EXCEPT !.type = w.type, !.priority = w.priority,
              !.approval_required = w.approval_required, !.status = "done"]

\* _write_qwen_result and _write_ollama_result: the descriptor is written
\* anew from a fixed list of keys.  type and priority come from the model's
\* answer, status is done, retry_count is carried over; source,
\* approval_required and approval_status are not in the list, so that the
\* readers see their defaults afterwards.
_write_qwen_result(f, w) ==
    [f EXCEPT !.type = w.type, !.priority = w.priority, !.status = "done",
              !.source = "file_drop", !.approval_required = "",
              !.approval_status = ""]

\* config.py:55: the provider an engine process reads from its environment
\* when it starts.  Engines with an odd id run the default (claude), the
\* others qwen.
AI_PROVIDER(e) == IF e % 2 = 1 THEN "claude" ELSE "qwen"

\* process_file, lines 413-417, on success: what the provider of engine e
\* leaves in the descriptor.
process_file(e, f, w) ==
    IF AI_PROVIDER(e) = "claude" THEN BackendRewrite(f, w)
                                 ELSE _write_qwen_result(f, w)

\* str.lower on the type values of the model.
lower(s) == IF s = "INVOICE" THEN "invoice" ELSE s

\* evaluate_hitl without the rule for the explicit flag.
evaluate_hitl_noflag(f) ==
    \/ (lower(f.type) \in {"invoice", "contract"} /\ f.priority = "high")
    \/ (f.source = "gmail" /\ f.priority = "high")
    \/ lower(f.type) = "linkedin_post"

\* evaluate_hitl with the type rule applied to every priority.
evaluate_hitl_anyprio(f) ==
    \/ f.approval_required = "true"
    \/ lower(f.type) \in {"invoice", "contract"}
    \/ (f.source = "gmail" /\ f.priority = "high")
    \/ lower(f.type) = "linkedin_post"

\* evaluate_hitl, lines 671-697: the four rules, in the order of the source;
\* the type is compared in lower case.
evaluate_hitl(f) ==
    \/ f.approval_required = "true"
    \/ (lower(f.type) \in {"invoice", "contract"} /\ f.priority = "high")
    \/ (f.source = "gmail" /\ f.priority = "high")
    \/ lower(f.type) = "linkedin_post"

\* A transition that moves the descriptor alone.
MoveCompanion_stay(c, from, to) == c

\* shutil.move of the companion: only when the task has one in directory from.
MoveCompanion(c, from, to) == IF c = from THEN to ELSE c

\* ------------------------------------------------------------------------
\* Process lock (utils.py)
\* ------------------------------------------------------------------------

\* The PID of a live process the caller may not signal (another user's):
\* os.kill(pid, 0) raises PermissionError, a subclass of OSError.
ForeignPid == -2

\* The process named by the lock file exists.
PidAlive(p) ==
    \/ p = ForeignPid
    \/ p \in Engines /\ pc[p] \notin {"dead", "refused", "claim_failed"}

\* acquire_lock, lines 86-90: os.kill(int(existing_pid), 0) returns without
\* an exception (OSError: no such process, or no permission to signal it;
\* ValueError: the content is not a number).
Alive(p) == p \in Engines /\ pc[p] \notin {"dead", "refused", "claim_failed"}

\* Engine e has obtained True from acquire_lock and has not released it.
Running(e) == pc[e] \in {"idle", "loop", "process"}

\* release_lock without the comparison of the stored PID: always unlink.
release_lock_any(e) == 0

\* release_lock: unlink only when the file holds the caller's own PID.
release_lock(e) == IF lockFile = e THEN 0 ELSE lockFile

\* acquire_lock, lines 83-90: exists() / read_text() / os.kill(pid, 0).
\* TRUE when the caller goes on to write its PID.
LockFree == lockFile = 0 \/ ~Alive(lockFile)

\* acquire_lock, first half: the check.
LockCheck(e) ==
    /\ pc[e] = "init"
    /\ pc' = [pc EXCEPT ![e] = IF LockFree THEN "lock_write" ELSE "refused"]
    /\ UNCHANGED <<taskVars, batch, cur, lockFile>>
    /\ UNCHANGED <<healthVars, ralphVars, scanVars, retryVars>>

\* acquire_lock, second half: write_text(str(pid)); return True.
LockWrite(e) ==
    /\ pc[e] = "lock_write"
    /\ lockFile' = e
    /\ pc' = [pc EXCEPT ![e] = "idle"]
    /\ UNCHANGED <<taskVars, batch, cur>>
    /\ UNCHANGED <<healthVars, ralphVars, scanVars, retryVars>>

\* main is run again after an engine process has ended (refused the lock,
\* stopped, killed, or ended by an exception of claim_file).
Start(e) ==
    /\ pc[e] \in {"refused", "dead", "claim_failed"}
    /\ pc' = [pc EXCEPT ![e] = "init"]
    /\ UNCHANGED <<taskVars, batch, cur, lockFile>>
    /\ UNCHANGED <<healthVars, ralphVars, scanVars, retryVars>>

\* main: --once, or KeyboardInterrupt during the sleep between two cycles,
\* ends the loop; finally: release_lock.
Stop(e) ==
    /\ pc[e] = "idle"
    /\ lockFile' = release_lock(e)
    /\ pc' = [pc EXCEPT ![e] = "dead"]
    /\ batch' = [batch EXCEPT ![e] = {}]
    /\ cur' = [cur EXCEPT ![e] = 0]
    /\ UNCHANGED taskVars
    /\ UNCHANGED <<healthVars, ralphVars, scanVars, retryVars>>

\* The process is killed: no finally block runs, the lock file stays and
\* from now on names a PID that is dead.
Kill(e) ==
    /\ Running(e)
    /\ pc' = [pc EXCEPT ![e] = "dead"]
    /\ batch' = [batch EXCEPT ![e] = {}]
    /\ cur' = [cur EXCEPT ![e] = 0]
    /\ lockFile' = IF lockFile = e THEN -1 ELSE lockFile
    /\ UNCHANGED taskVars
    /\ UNCHANGED <<healthVars, ralphVars, scanVars, retryVars>>

\* ------------------------------------------------------------------------
\* run_cycle (orchestrator.py)
\* ------------------------------------------------------------------------

\* The descriptors run_cycle keeps: in Needs_Action with status pending.
Actionable == {t \in Tasks : dir[t] = "available" /\ fm[t].status = "pending"}

\* run_cycle, lines 786-801: list, filter, cut at MAX_BATCH_SIZE; an empty
\* list returns 0 at once.
StartCycle(e) ==
    /\ pc[e] = "idle"
    /\ \E b \in SUBSET Actionable :
          /\ IF Cardinality(Actionable) <= MAX_BATCH_SIZE
                THEN b = Actionable
                ELSE Cardinality(b) = MAX_BATCH_SIZE
          /\ batch' = [batch EXCEPT ![e] = b]
          /\ pc' = [pc EXCEPT ![e] = IF b = {} THEN "idle" ELSE "loop"]
    /\ UNCHANGED <<taskVars, cur, lockFile>>
    /\ UNCHANGED <<healthVars, ralphVars, scanVars, retryVars>>

\* A move that copies over whatever is at the destination instead of renaming.
RenameSucceeds_copy(t) == dir[t] \in {"available", "owned"}

\* claim_file, line 124: shutil.move of the descriptor succeeds exactly for a
\* descriptor that is still in Needs_Action (one rename per file).
RenameSucceeds(t) == dir[t] = "available"

\* claim_file: move the descriptor, move the companion, set status
\* in_progress.  A failed rename raises FileNotFoundError before anything is
\* moved or written; the exception leaves run_cycle and main (finally:
\* release_lock).
claim_file(e, t) ==
    IF RenameSucceeds(t)
    THEN /\ dir' = [dir EXCEPT ![t] = "owned"]
         /\ comp' = [comp EXCEPT ![t] = MoveCompanion(@, "available", "owned")]
         /\ fm' = [fm EXCEPT ![t].status = "in_progress"]
         /\ stale' = [stale EXCEPT ![t] = FALSE]
         /\ cur' = [cur EXCEPT ![e] = t]
         /\ pc' = [pc EXCEPT ![e] = "process"]
         /\ batch' = [batch EXCEPT ![e] = @ \ {t}]
         /\ UNCHANGED lockFile
    ELSE /\ pc' = [pc EXCEPT ![e] = "claim_failed"]
         /\ batch' = [batch EXCEPT ![e] = {}]
         /\ lockFile' = release_lock(e)
         /\ UNCHANGED <<dir, comp, fm, stale, cur>>

\* run_cycle, lines 806-808: claim the next element of the batch.
Claim(e) ==
    /\ pc[e] = "loop"
    /\ \E t \in batch[e] : claim_file(e, t)
    /\ UNCHANGED <<fails, wasPending>>
    /\ UNCHANGED <<healthVars, ralphVars, scanVars, retryVars>>

\* A move to Done that writes the descriptor anew, with retry_count 0.
move_to_done_reset(t, f) ==
    /\ dir' = [dir EXCEPT ![t] = "done"]
    /\ comp' = [comp EXCEPT ![t] = MoveCompanion(@, "owned", "done")]
    /\ fm' = [fm EXCEPT ![t] = [f EXCEPT !.status = "done", !.retry_count = 0]]
    /\ UNCHANGED wasPending

\* move_to_done: In_Progress -> Done, status done.
move_to_done(t, f) ==
    /\ dir' = [dir EXCEPT ![t] = "done"]
    /\ comp' = [comp EXCEPT ![t] = MoveCompanion(@, "owned", "done")]
    /\ fm' = [fm EXCEPT ![t] = [f EXCEPT !.status = "done"]]
    /\ UNCHANGED wasPending

\* route_to_approval: In_Progress -> Pending_Approval, status pending_approval.
route_to_approval(t, f) ==
    /\ dir' = [dir EXCEPT ![t] = "pending_approval"]
    /\ comp' = [comp EXCEPT ![t] = MoveCompanion(@, "owned", "pending_approval")]
    /\ fm' = [fm EXCEPT ![t] = [f EXCEPT !.status = "pending_approval"]]
    /\ wasPending' = [wasPending EXCEPT ![t] = TRUE]

\* The ceiling test written with > instead of >=.
RetriesExhausted_gt(retry_count) == retry_count > MAX_RETRIES

\* handle_failure, line 439: the ceiling test on the incremented count.
RetriesExhausted(retry_count) == retry_count >= MAX_RETRIES

\* handle_failure: retry_count = int(fm["retry_count"]) + 1, then quarantine
\* (status and reason are written, retry_count is not) or back to
\* Needs_Action with status pending and the incremented retry_count.
handle_failure(t, f) ==
    LET retry_count == f.retry_count + 1 IN
    /\ IF RetriesExhausted(retry_count)
       THEN /\ dir' = [dir EXCEPT ![t] = "quarantined"]
            /\ comp' = [comp EXCEPT ![t] = MoveCompanion(@, "owned", "quarantined")]
            /\ fm' = [fm EXCEPT ![t] =
                         _update_frontmatter(f, [status |-> "quarantined"])]
       ELSE /\ dir' = [dir EXCEPT ![t] = "available"]
            /\ comp' = [comp EXCEPT ![t] = MoveCompanion(@, "owned", "available")]
            /\ fm' = [fm EXCEPT ![t] =
                         _update_frontmatter(f, [status |-> "pending",
                                                 retry_count |-> retry_count])]
    /\ UNCHANGED wasPending

\* run_cycle, lines 816-827: process_file, the synchronous call of the
\* reasoning backend, returns True after the backend has rewritten the
\* descriptor (f is what it left), or False (timeout, non-zero exit, CLI
\* missing).  Then route, finish or handle the failure.
Process(e) ==
    /\ pc[e] = "process"
    /\ LET t == cur[e] IN
         \/ \E w \in BackendWrites :
              LET f == process_file(e, fm[t], w) IN
              /\ IF evaluate_hitl(f) THEN route_to_approval(t, f)
                                     ELSE move_to_done(t, f)
              /\ UNCHANGED fails
         \/ /\ handle_failure(t, fm[t])
            /\ fails' = [fails EXCEPT ![t] = @ + 1]
    /\ cur' = [cur EXCEPT ![e] = 0]
    /\ pc' = [pc EXCEPT ![e] = "loop"]
    /\ UNCHANGED <<batch, lockFile, stale>>
    /\ UNCHANGED <<healthVars, ralphVars, scanVars, retryVars>>

\* process_file of the claude provider returns False after the backend has
\* begun to rewrite the descriptor it was told to write (prompt, lines
\* 163-166; timeout after 120 s or a non-zero exit, lines 377-393) and has
\* left it without a header block.  The qwen and ollama providers write the
\* descriptor on success only.
ProcessDamaged(e) ==
    /\ pc[e] = "process"
    /\ AI_PROVIDER(e) = "claude"
    /\ LET t == cur[e] IN
         /\ handle_failure(t, NoFrontmatter)
         /\ fails' = [fails EXCEPT ![t] = @ + 1]
    /\ cur' = [cur EXCEPT ![e] = 0]
    /\ pc' = [pc EXCEPT ![e] = "loop"]
    /\ UNCHANGED <<batch, lockFile, stale>>
    /\ UNCHANGED <<healthVars, ralphVars, scanVars, retryVars>>

\* The finalization without the status update.
FinalizeApproval_nostatus(f, d) ==
    [f EXCEPT !.approval_status = IF d = "approved" THEN "approved" ELSE "rejected"]

\* process_approved_files / process_rejected_files: status done and the
\* approval_status of the directory the descriptor was found in.
FinalizeApproval(f, d) ==
    [f EXCEPT !.status = "done",
              !.approval_status = IF d = "approved" THEN "approved" ELSE "rejected"]

\* run_cycle, lines 829-838: reached only after a non-empty batch; every
\* descriptor in Approved/ and Rejected/ goes to Done.
Poll(e) ==
    /\ pc[e] = "loop"
    /\ batch[e] = {}
    /\ dir' = [t \in Tasks |->
                 IF dir[t] \in {"approved", "rejected"} THEN "done" ELSE dir[t]]
    /\ comp' = [t \in Tasks |->
                 IF dir[t] \in {"approved", "rejected"}
                 THEN MoveCompanion(comp[t], dir[t], "done") ELSE comp[t]]
    /\ fm' = [t \in Tasks |->
                 IF dir[t] \in {"approved", "rejected"}
                 THEN FinalizeApproval(fm[t], dir[t]) ELSE fm[t]]
    /\ pc' = [pc EXCEPT ![e] = "idle"]
    /\ UNCHANGED <<fails, wasPending, stale, batch, cur, lockFile>>
    /\ UNCHANGED <<healthVars, ralphVars, scanVars, retryVars>>

\* The human reviewer moves a descriptor (and its companion) out of
\* Pending_Approval into Approved or Rejected.
HumanDecides(t) ==
    /\ dir[t] = "pending_approval"
    /\ \E d \in {"approved", "rejected"} :
          /\ dir' = [dir EXCEPT ![t] = d]
          /\ comp' = [comp EXCEPT ![t] = MoveCompanion(@, "pending_approval", d)]
    /\ UNCHANGED <<fm, fails, wasPending, stale, engVars, lockFile>>
    /\ UNCHANGED <<healthVars, ralphVars, scanVars, retryVars>>

\* ------------------------------------------------------------------------
\* Error recovery engine (error_recovery.py)
\* ------------------------------------------------------------------------

\* The integrations of the model: one per degradation rule.
Components == {"odoo", "whatsapp"}

\* ErrorCategory.
Categories == {"transient", "rate_limit", "auth", "payment", "permanent", "component"}

\* What one invocation of the integration function does: it returns, or it
\* raises an error that classify_error puts into the named category.
Outcomes == {"ok", "transient", "payment", "auth"}

\* One ceiling for every category.
MaxAttempts_flat(cat) == 5

\* RETRY_CONFIG[cat]["max_attempts"].
MaxAttempts(cat) ==
    CASE cat = "transient" -> 5
      [] cat = "rate_limit" -> 4
      [] cat = "auth" -> 1
      [] cat = "payment" -> 1
      [] cat = "permanent" -> 1
      [] cat = "component" -> 3

\* ComponentHealth.get_degradation_rule.
get_degradation_rule(c) ==
    CASE c \in {"gmail", "twitter", "linkedin", "odoo"} -> "queue_to_local"
      [] c = "claude" -> "watchers_continue"
      [] OTHER -> "log_only"

Payloads == 1..MaxCalls

NoCall == [active |-> FALSE, comp |-> "odoo", payload |-> 0, attempt |-> 0,
           forced |-> "none"]

\* No record in ComponentHealth._status (a fresh process).
NoHealth == [status |-> "none", failures |-> 0]

\* A success that sets the status and keeps the counter.
mark_healthy_keep(h) == [status |-> "healthy", failures |-> h.failures]

\* ComponentHealth.mark_healthy, lines 359-364.
mark_healthy(h) == [status |-> "healthy", failures |-> 0]

\* ComponentHealth.mark_healthy, lines 358 and 365-367: component_recovered
\* is logged when the status before the call was down.
was_down(h) == h.status = "down"

\* No call of flush_offline_queue in the latest step.
NoFlush == [valid |-> FALSE, comp |-> "odoo", success |-> 0, failure |-> 0]

\* ComponentHealth.mark_failure, lines 371-378.
mark_failure(h) ==
    [status |-> IF h.failures + 1 >= 3 THEN "down" ELSE "degraded",
     failures |-> h.failures + 1]

\* The alert test written with >= instead of ==.
AlertDue_ge(failures) == failures >= 3

\* ComponentHealth.mark_failure, line 392: the alert is written when the
\* counter is exactly 3.
AlertDue(failures) == failures = 3

\* safe_call(func, component=c), or the same with a forced category:
\* with_retry starts with attempt 1.
SafeCallBegin(c, forced) ==
    /\ ~call.active
    /\ nCalls < MaxCalls
    /\ nCalls' = nCalls + 1
    /\ call' = [active |-> TRUE, comp |-> c, payload |-> nCalls + 1,
                attempt |-> 1, forced |-> forced]
    /\ replayed' = <<>>
    /\ flushResult' = NoFlush
    /\ events' = {}
    /\ UNCHANGED <<health, compAlerts, payAlerts, payFiles, now, authAlerts, queue,
                   approvedPay>>
    /\ UNCHANGED <<taskVars, engVars, lockFile, ralphVars, scanVars, retryVars>>

\* queue_offline: one more item file in the directory of the component, named
\* by its enqueue time to the microsecond (ts; here the number of the call
\* that queued it); cat records whether the call of this payload ended with
\* a payment error.
queue_offline(q, p, cat) ==
    q \cup {[payload |-> p, ts |-> p,
             cat |-> IF cat = "payment" THEN "payment" ELSE "other"]}

\* safe_call, lines 564-575: with_retry raised.  mark_failure, then the
\* fallback payload goes to the offline queue under queue_to_local.
safe_call_failed(c, p, cat, fallback) ==
    /\ health' = [health EXCEPT ![c] = mark_failure(@)]
    /\ compAlerts' = [compAlerts EXCEPT ![c] =
                        IF AlertDue(health[c].failures + 1) THEN @ + 1 ELSE @]
    /\ queue' = [queue EXCEPT ![c] =
                    IF fallback /\ get_degradation_rule(c) = "queue_to_local"
                    THEN queue_offline(@, p, cat) ELSE @]
    /\ call' = NoCall

\* handle_auth_error, lines 234-285: one alert file is written into
\* Needs_Action and the pause is logged; nothing else is stored.
handle_auth_error(n) == n + 1

\* _create_payment_error_alert, lines 295-298: the file is named by the
\* component and the time in whole seconds; write_text replaces a file of
\* that name.
_create_payment_error_alert(files, c, ts) == files \cup {[comp |-> c, ts |-> ts]}

\* One pass of the loop of with_retry (lines 172-225) inside safe_call: the
\* function is invoked; on an error the category is the forced one or the
\* classified one; payment and auth write their alert and raise, the attempt
\* ceiling raises, anything else sleeps and goes to the next attempt.
\* fallback: the caller has passed a fallback_queue_payload (an argument of
\* safe_call that is read once, at line 566, when with_retry has raised).
Attempt(outcome, fallback) ==
    /\ call.active
    /\ LET c == call.comp
           p == call.payload
           cat == IF call.forced # "none" THEN call.forced ELSE outcome
       IN
       IF outcome = "ok"
       THEN /\ health' = [health EXCEPT ![c] = mark_healthy(@)]
            /\ events' = IF was_down(health[c]) THEN {c} ELSE {}
            /\ call' = NoCall
            /\ UNCHANGED <<compAlerts, payAlerts, payFiles, authAlerts, queue>>
       ELSE IF cat = "payment"
       THEN /\ payAlerts' = payAlerts + 1
            /\ payFiles' = _create_payment_error_alert(payFiles, c, now)
            /\ safe_call_failed(c, p, cat, fallback)
            /\ UNCHANGED authAlerts
            /\ events' = {}
       ELSE IF cat = "auth"
       THEN /\ authAlerts' = [authAlerts EXCEPT ![c] = handle_auth_error(@)]
            /\ safe_call_failed(c, p, cat, fallback)
            /\ UNCHANGED <<payAlerts, payFiles>>
            /\ events' = {}
       ELSE IF call.attempt >= MaxAttempts(cat)
       THEN /\ safe_call_failed(c, p, cat, fallback)
            /\ UNCHANGED <<payAlerts, payFiles, authAlerts>>
            /\ events' = {}
       ELSE /\ call' = [call EXCEPT !.attempt = @ + 1]
            /\ UNCHANGED <<health, compAlerts, payAlerts, payFiles, authAlerts, queue>>
            /\ events' = {}
    /\ replayed' = <<>>
    /\ flushResult' = NoFlush
    /\ UNCHANGED <<nCalls, approvedPay, now>>
    /\ UNCHANGED <<taskVars, engVars, lockFile, ralphVars, scanVars, retryVars>>

\* A directory listing in descending order of the file names.
RECURSIVE sorted_glob_desc(_)
sorted_glob_desc(q) ==
    IF q = {} THEN <<>>
    ELSE LET last == CHOOSE x \in q : \A y \in q : y.ts <= x.ts
         IN <<last>> \o sorted_glob_desc(q \ {last})

\* flush_offline_queue, line 499: sorted(queue_path.glob("QUEUED_*.json")),
\* the item files in ascending order of their names, that is of their
\* enqueue times.
RECURSIVE sorted_glob(_)
sorted_glob(q) ==
    IF q = {} THEN <<>>
    ELSE LET first == CHOOSE x \in q : \A y \in q : x.ts <= y.ts
         IN <<first>> \o sorted_glob(q \ {first})

\* A flush that unlinks every item it has handed to the handler.
Remaining_none(q, ok) == {}

\* flush_offline_queue, lines 506-516: the item files left after the loop,
\* those whose handler call did not return True (ok: the payloads it did).
Remaining(q, ok) == {item \in q : item.payload \notin ok}

\* Every payload there is, queued in q or not.
QueuedPayloads_any(q) == Payloads

\* The payloads of the items of q.
QueuedPayloads(q) == {item.payload : item \in q}

\* flush_offline_queue(c, handler): the handler is invoked on the payload of
\* every queued item, in the order of the listing; the items it returns True
\* for (ok) are unlinked and counted as successes, the others (False, or an
\* exception) stay and are counted as failures.  A component without a queue
\* directory returns (0, 0) at once.  The approval a human gave for a payload
\* goes with its item.
Flush(c) ==
    /\ ~call.active
    /\ LET items == sorted_glob(queue[c]) IN
       \E ok \in SUBSET QueuedPayloads(queue[c]) :
          /\ queue' = [queue EXCEPT ![c] = Remaining(@, ok)]
          /\ replayed' = [i \in 1..Len(items) |->
                            [payload |-> items[i].payload,
                             ok |-> items[i].payload \in ok]]
          /\ flushResult' = [valid |-> TRUE, comp |-> c,
                             success |-> Cardinality(ok),
                             failure |-> Len(items) - Cardinality(ok)]
          /\ approvedPay' = approvedPay \ ok
    /\ events' = {}
    /\ UNCHANGED <<health, compAlerts, payAlerts, payFiles, now, authAlerts, call, nCalls>>
    /\ UNCHANGED <<taskVars, engVars, lockFile, ralphVars, scanVars, retryVars>>

\* The queued payloads of c whose call failed with a payment error and that
\* no human has approved since.
UnapprovedPayments(c) ==
    {item.payload : item \in {x \in queue[c] : x.cat = "payment"}} \ approvedPay

\* The human gives a fresh approval for a failed payment (moves its
\* PAYMENT_ERROR file to Approved/).
HumanApprovesPayment(p) ==
    /\ \E c \in Components : p \in UnapprovedPayments(c)
    /\ approvedPay' = approvedPay \cup {p}
    /\ replayed' = <<>>
    /\ flushResult' = NoFlush
    /\ events' = {}
    /\ UNCHANGED <<health, compAlerts, payAlerts, payFiles, now, authAlerts, queue, call,
                   nCalls>>
    /\ UNCHANGED <<taskVars, engVars, lockFile, ralphVars, scanVars, retryVars>>

\* A fresh process: no health record, no alert, empty offline queues.
HealthInit ==
    /\ health = [c \in Components |-> NoHealth]
    /\ compAlerts = [c \in Components |-> 0]
    /\ payAlerts = 0
    /\ payFiles = {}
    /\ now = 0
    /\ authAlerts = [c \in Components |-> 0]
    /\ queue = [c \in Components |-> {}]
    /\ call = NoCall
    /\ nCalls = 0
    /\ replayed = <<>>
    /\ flushResult = NoFlush
    /\ events = {}
    /\ approvedPay = {}

\* ------------------------------------------------------------------------
\* Ralph Wiggum loop (ralph_wiggum.py)
\* ------------------------------------------------------------------------

\* MAX_ITERATIONS_BY_TYPE["default"].
DefaultMaxIterations == 5

\* Task ids of the loop: 0 is an id a caller passes to run_ralph_loop, t is
\* the id stuck_<stem> check_and_trigger_for_stuck uses for descriptor t.
RalphIds == {0} \cup Tasks

NoState == [status |-> "none", current_iteration |-> 0, max_iterations |-> 0]

NoLoop == [active |-> FALSE, id |-> 0, n |-> 0, max_iters |-> 0, iteration |-> 0,
           completed |-> FALSE, never |-> FALSE, calls |-> 0, found |-> 0,
           found_max |-> 0]

NoResult == [valid |-> FALSE, n |-> 0, never |-> FALSE, status |-> "none",
             iterations_used |-> 0, completed |-> FALSE, calls |-> 0, alerts |-> 0]

\* The argument max_iterations=None of run_ralph_loop (the default, line 180).
NoneArg == -1

\* run_ralph_loop, line 204: max_iterations or MAX_ITERATIONS_BY_TYPE[...];
\* the expression takes the default for None and for 0 alike.
max_iters(n) == IF n = NoneArg \/ n = 0 THEN DefaultMaxIterations ELSE n

\* run_ralph_loop, lines 202-234: the initial state record (current_iteration
\* 0, status running) replaces whatever record the id had.  never tells that
\* the completion oracle of this call can not be satisfied; found keeps the
\* current_iteration, and found_max the max_iterations, of a record a stopped
\* loop had left.
run_ralph_loop(i, n, never) ==
    /\ ~loop.active
    /\ rstate' = [rstate EXCEPT ![i] =
                    [status |-> "running", current_iteration |-> 0,
                     max_iterations |-> max_iters(n)]]
    /\ loop' = [active |-> TRUE, id |-> i, n |-> n, max_iters |-> max_iters(n),
                iteration |-> 0, completed |-> FALSE, never |-> never, calls |-> 0,
                found |-> IF rstate[i].status = "running"
                          THEN rstate[i].current_iteration ELSE 0,
                found_max |-> IF rstate[i].status = "running"
                              THEN rstate[i].max_iterations ELSE 0]
    /\ inv' = [inv EXCEPT ![i] = IF rstate[i].status = "running" THEN @ ELSE 0]
    /\ lastResult' = NoResult
    /\ UNCHANGED exhAlerts

\* A caller (the CLI or a program) starts the loop with max_iterations = n.
RalphCall(n, never) ==
    /\ nRuns < MaxRuns
    /\ nRuns' = nRuns + 1
    /\ run_ralph_loop(0, n, never)
    /\ UNCHANGED <<taskVars, engVars, lockFile, healthVars, scanVars, retryVars>>

\* A scan that skips only the tasks whose loop is still running.
AlreadyStarted_running(r) == r.status = "running"

\* check_and_trigger_for_stuck, lines 393-396: a state file of the task
\* exists, whatever its status.
AlreadyStarted(r) == r.status # "none"

\* check_and_trigger_for_stuck, lines 389-428: a descriptor in In_Progress
\* older than the threshold and without a state record starts the loop with
\* the default ceiling and the promise "Processing complete".
StuckTrigger(t) ==
    /\ dir[t] = "owned"
    /\ stale[t]
    /\ ~AlreadyStarted(rstate[t])
    /\ run_ralph_loop(t, NoneArg, FALSE)
    /\ UNCHANGED nRuns
    /\ UNCHANGED <<taskVars, engVars, lockFile, healthVars, scanVars, retryVars>>

\* One pass of the loop (lines 236-280): save current_iteration, invoke the
\* backend, test the oracle.  For a stuck descriptor the backend is asked to
\* set the status to done and not to move files (lines 410-420).
RalphIterate ==
    /\ loop.active
    /\ ~loop.completed
    /\ loop.iteration < loop.max_iters
    /\ LET i == loop.id IN
       /\ rstate' = [rstate EXCEPT ![i].current_iteration = loop.iteration + 1]
       /\ inv' = [inv EXCEPT ![i] = IF @ > DefaultMaxIterations THEN @ ELSE @ + 1]
       /\ \E done \in BOOLEAN :
             /\ loop.never => ~done
             /\ loop' = [loop EXCEPT !.iteration = @ + 1, !.calls = @ + 1,
                                     !.completed = done]
       /\ IF i \in Tasks
          THEN \/ UNCHANGED <<fm, stale>>
               \/ /\ fm' = [fm EXCEPT ![i].status = "done"]
                  /\ stale' = [stale EXCEPT ![i] = FALSE]
          ELSE UNCHANGED <<fm, stale>>
    /\ UNCHANGED <<nRuns, exhAlerts, lastResult>>
    /\ UNCHANGED <<dir, comp, fails, wasPending, engVars, lockFile, healthVars, scanVars, retryVars>>

\* A finalization that leaves the record of a completed loop behind.
_cleanup_state_keep(r) == [r EXCEPT !.status = "completed"]

\* _cleanup_state, called at line 302: the state file of the task is deleted.
_cleanup_state(r) == NoState

\* Lines 282-317: the loop has ended.  Completed: the state record is
\* deleted.  Otherwise the record stays with max_iterations_reached and one
\* RALPH_EXHAUSTED alert is written.
RalphFinalize ==
    /\ loop.active
    /\ loop.completed \/ loop.iteration >= loop.max_iters
    /\ LET i == loop.id
           final_status == IF loop.completed THEN "completed"
                                             ELSE "max_iterations_reached"
       IN
       /\ rstate' = [rstate EXCEPT ![i] =
                       IF loop.completed THEN _cleanup_state(@)
                       ELSE [@ EXCEPT !.status = final_status]]
       /\ exhAlerts' = [exhAlerts EXCEPT ![i] = IF loop.completed THEN @ ELSE @ + 1]
       /\ lastResult' = [valid |-> TRUE, n |-> loop.n, never |-> loop.never,
                         status |-> final_status,
                         iterations_used |-> rstate[i].current_iteration,
                         completed |-> loop.completed, calls |-> loop.calls,
                         alerts |-> IF loop.completed THEN 0 ELSE 1]
    /\ loop' = NoLoop
    /\ inv' = [inv EXCEPT ![loop.id] = 0]
    /\ UNCHANGED nRuns
    /\ UNCHANGED <<taskVars, engVars, lockFile, healthVars, scanVars, retryVars>>

\* The process that runs the loop stops (restart, kill); the state record
\* stays as it was last saved.
RalphCrash ==
    /\ loop.active
    /\ loop' = NoLoop
    /\ UNCHANGED <<rstate, nRuns, inv, exhAlerts, lastResult>>
    /\ UNCHANGED <<taskVars, engVars, lockFile, healthVars, scanVars, retryVars>>

\* Time passes: a descriptor that sits in In_Progress gets older than the
\* stuck threshold (stuck_threshold_minutes).
TimePasses(t) ==
    /\ dir[t] = "owned"
    /\ ~stale[t]
    /\ stale' = [stale EXCEPT ![t] = TRUE]
    /\ UNCHANGED <<dir, comp, fm, fails, wasPending, engVars, lockFile,
                   healthVars, ralphVars, scanVars, retryVars>>

\* No loop has run: no state record, no alert.
RalphInit ==
    /\ rstate = [i \in RalphIds |-> NoState]
    /\ loop = NoLoop
    /\ nRuns = 0
    /\ inv = [i \in RalphIds |-> 0]
    /\ exhAlerts = [i \in RalphIds |-> 0]
    /\ lastResult = NoResult

\* ------------------------------------------------------------------------
\* The actionable list of run_cycle (orchestrator.py)
\* ------------------------------------------------------------------------

\* The descriptor files of one Needs_Action directory.
Files == 1..NumFiles

\* The name prefixes of the descriptors that are written into Needs_Action
\* with status pending: FILE_ by the inbox watcher (watcher.py:126) and by
\* handle_failure, TWITTER_MENTION_ by the Twitter watcher
\* (twitter_watcher.py:219-247, "for orchestrator pickup").
Prefixes == {"FILE", "TWITTER_MENTION"}

\* run_cycle has not listed the directory.
NoList == [ran |-> FALSE, files |-> <<>>]

\* NEEDS_ACTION.glob("FILE_*.md"), line 787.
glob(l) == {i \in DOMAIN l : l[i].prefix = "FILE"}

\* sorted(..., key=lambda p: p.stat().st_mtime), lines 786-789: ascending
\* modification time.
RECURSIVE sorted_mtime(_, _)
sorted_mtime(S, l) ==
    IF S = {} THEN <<>>
    ELSE LET first == CHOOSE x \in S : \A y \in S : l[x].mtime <= l[y].mtime
         IN <<first>> \o sorted_mtime(S \ {first}, l)

\* The loop of lines 792-798: a file is appended when its frontmatter says
\* status pending; the loop ends when the list has MAX_BATCH_SIZE elements.
RECURSIVE filter_pending(_, _, _)
filter_pending(pending, l, acc) ==
    IF pending = <<>> THEN acc
    ELSE LET p == Head(pending)
             acc2 == IF l[p].status = "pending" THEN Append(acc, p) ELSE acc
         IN IF Len(acc2) >= MAX_BATCH_SIZE THEN acc2
            ELSE filter_pending(Tail(pending), l, acc2)

\* run_cycle, lines 786-798: list, sort, filter.
RunCycleList ==
    /\ ~actionable.ran
    /\ actionable' = [ran |-> TRUE,
                      files |-> filter_pending(sorted_mtime(glob(listing), listing),
                                               listing, <<>>)]
    /\ UNCHANGED <<listing, monVars, fsVars>>
    /\ UNCHANGED <<taskVars, engVars, lockFile, healthVars, ralphVars, retryVars>>

\* ------------------------------------------------------------------------
\* The monitor (ralph_loop.py)
\* ------------------------------------------------------------------------

\* ralph_loop.py:32-33.
HIGH_QUARANTINE_COUNT == 3

HIGH_APPROVAL_BACKLOG == 5

\* What the four checks look at: FILE_*.md in In_Progress older than the
\* timeout (stuck), *.md in Quarantine (quarantine), the task descriptors in
\* Pending_Approval (approval), pending FILE_*.md in Needs_Action older than
\* the limit (stale), and the RALPH_*.md alert files that lie in
\* Pending_Approval (ralph, counted up to the backlog threshold).
Vaults ==
    [stuck : 0..MaxStuck, quarantine : 0..HIGH_QUARANTINE_COUNT,
     approval : 0..HIGH_APPROVAL_BACKLOG, stale : 0..MaxStuck,
     ralph : 0..HIGH_APPROVAL_BACKLOG]

\* _count_files(PENDING_APPROVAL): every file of the directory but .gitkeep,
\* the alert files included, those this run has written so far too.
_count_files(v, written) == v.approval + v.ralph + written

\* check_quarantine_count.
check_quarantine_count(v) == v.quarantine >= HIGH_QUARANTINE_COUNT

\* check_approval_backlog.
check_approval_backlog(v, written) == _count_files(v, written) >= HIGH_APPROVAL_BACKLOG

\* run_ralph_checks, the alerts in the order in which they are created:
\* stuck, quarantine, backlog, stale.  create_ralph_alert writes each into
\* Pending_Approval at once, before the next check runs.
run_ralph_checks(v) ==
    LET a1 == IF v.stuck > 0 THEN {"stuck_in_progress"} ELSE {}
        a2 == IF check_quarantine_count(v) THEN {"high_quarantine"} ELSE {}
        a3 == IF check_approval_backlog(v, Cardinality(a1 \cup a2))
              THEN {"approval_backlog"} ELSE {}
        a4 == IF v.stale > 0 THEN {"stale_pending"} ELSE {}
    IN a1 \cup a2 \cup a3 \cup a4

\* One periodic run of the checks; the runs are more than a second apart, so
\* that every alert has a file name of its own (RALPH_<ts>_<type>.md).
RunRalphChecks ==
    /\ alerts_created' = run_ralph_checks(vault)
    /\ vault' = [vault EXCEPT !.ralph =
                    IF @ + Cardinality(alerts_created') > HIGH_APPROVAL_BACKLOG
                    THEN HIGH_APPROVAL_BACKLOG
                    ELSE @ + Cardinality(alerts_created')]
    /\ UNCHANGED <<listing, actionable, fsVars>>
    /\ UNCHANGED <<taskVars, engVars, lockFile, healthVars, ralphVars, retryVars>>

\* The engines and the human go on: descriptors get stuck or are recovered,
\* are quarantined or taken out of Quarantine, are routed to approval or
\* decided.  The alert files stay.
VaultChanges ==
    /\ \E k \in {"stuck", "quarantine", "approval", "stale"}, n \in 0..HIGH_APPROVAL_BACKLOG :
          /\ n # vault[k]
          /\ [vault EXCEPT ![k] = n] \in Vaults
          /\ vault' = [vault EXCEPT ![k] = n]
    /\ UNCHANGED alerts_created
    /\ UNCHANGED <<listing, actionable, fsVars>>
    /\ UNCHANGED <<taskVars, engVars, lockFile, healthVars, ralphVars, retryVars>>

\* The human acknowledges or dismisses an alert: the file is moved to
\* Approved or Rejected (create_ralph_alert, lines 212-213).
HumanMovesAlert ==
    /\ vault.ralph > 0
    /\ vault' = [vault EXCEPT !.ralph = @ - 1]
    /\ UNCHANGED alerts_created
    /\ UNCHANGED <<listing, actionable, fsVars>>
    /\ UNCHANGED <<taskVars, engVars, lockFile, healthVars, ralphVars, retryVars>>

MonInit ==
    /\ vault = [stuck |-> 0, quarantine |-> 0, approval |-> 0, stale |-> 0, ralph |-> 0]
    /\ alerts_created = {}

\* ------------------------------------------------------------------------
\* The descriptor files (orchestrator.py)
\* ------------------------------------------------------------------------

\* file[t][d] is "absent", "empty" (the file exists with no content) or the
\* status of a descriptor that is there whole.  op[e] holds the stage of the
\* handler engine e is in: idle, holding (a claimed task is being processed),
\* moved (shutil.move done), read (read_text of _update_frontmatter done),
\* opened (the file is open for writing); t is its task, at the directory of
\* the path it writes, status the status it writes.
NoOp == [stage |-> "idle", t |-> 0, at |-> "none", status |-> "none"]

\* shutil.move within the vault: os.rename, the file leaves from and is at
\* to, in place of what was there.
shutil_move(f, from, to) == [f EXCEPT ![to] = f[from], ![from] = "absent"]

\* A handler of engine e has moved the descriptor of t and goes on to
\* _update_frontmatter(to, {status: ...}).
Moved(e, t, from, to, status) ==
    /\ file' = [file EXCEPT ![t] = shutil_move(@, from, to)]
    /\ op' = [op EXCEPT ![e] = [stage |-> "moved", t |-> t, at |-> to, status |-> status]]

\* run_cycle and claim_file: a descriptor the filter has read as pending is
\* moved to In_Progress.
FsClaim(e, t) ==
    /\ op[e].stage = "idle"
    /\ file[t]["available"] = "pending"
    /\ Moved(e, t, "available", "owned", "in_progress")
    /\ UNCHANGED seen
    /\ UNCHANGED <<listing, actionable, monVars>>
    /\ UNCHANGED <<taskVars, engVars, lockFile, healthVars, ralphVars, retryVars>>

\* What run_cycle does with the claimed descriptor: move_to_done,
\* route_to_approval, or handle_failure with its two branches.
FsFinish(e) ==
    /\ op[e].stage = "holding"
    /\ \E o \in {[to |-> "done", status |-> "done"],
                  [to |-> "pending_approval", status |-> "pending_approval"],
                  [to |-> "available", status |-> "pending"],
                  [to |-> "quarantined", status |-> "quarantined"]} :
          Moved(e, op[e].t, "owned", o.to, o.status)
    /\ UNCHANGED seen
    /\ UNCHANGED <<listing, actionable, monVars>>
    /\ UNCHANGED <<taskVars, engVars, lockFile, healthVars, ralphVars, retryVars>>

\* process_approved_files and process_rejected_files: a descriptor found in
\* Approved or Rejected is moved to Done.
FsPoll(e, t) ==
    /\ op[e].stage = "idle"
    /\ \E from \in {"approved", "rejected"} :
          /\ file[t][from] # "absent"
          /\ Moved(e, t, from, "done", "done")
    /\ UNCHANGED seen
    /\ UNCHANGED <<listing, actionable, monVars>>
    /\ UNCHANGED <<taskVars, engVars, lockFile, healthVars, ralphVars, retryVars>>

\* The stage after a handler has ended: claim_file leaves the engine with
\* the task, every other handler ends the work on it.
AfterHandler(o) ==
    IF o.at = "owned" THEN [o EXCEPT !.stage = "holding"] ELSE NoOp

\* _update_frontmatter, lines 77-80: path.read_text() raises
\* FileNotFoundError when the file is no longer at the path, and the
\* handler is left; no header in what was read (an empty file), return
\* without writing.
FsReadText(e) ==
    /\ op[e].stage = "moved"
    /\ LET content == file[op[e].t][op[e].at] IN
         op' = [op EXCEPT ![e] =
                  IF content = "absent" THEN NoOp
                  ELSE IF content = "empty" THEN AfterHandler(@)
                  ELSE [@ EXCEPT !.stage = "read"]]
    /\ UNCHANGED <<file, seen>>
    /\ UNCHANGED <<listing, actionable, monVars>>
    /\ UNCHANGED <<taskVars, engVars, lockFile, healthVars, ralphVars, retryVars>>

\* _update_frontmatter, line 101: path.write_text opens the path with mode
\* "w", which empties the file, and creates it when it is not there.
FsOpen(e) ==
    /\ op[e].stage = "read"
    /\ file' = [file EXCEPT ![op[e].t][op[e].at] = "empty"]
    /\ op' = [op EXCEPT ![e].stage = "opened"]
    /\ UNCHANGED seen
    /\ UNCHANGED <<listing, actionable, monVars>>
    /\ UNCHANGED <<taskVars, engVars, lockFile, healthVars, ralphVars, retryVars>>

\* path.write_text, the write and the close: the text reaches the file that
\* was opened, at the path or where a rename has taken it since.
FsWrite(e) ==
    /\ op[e].stage = "opened"
    /\ LET t == op[e].t
           opened == {d \in Dirs : file[t][d] = "empty"}
           d == IF op[e].at \in opened THEN op[e].at ELSE CHOOSE x \in opened : TRUE
       IN file' = IF opened = {} THEN file ELSE [file EXCEPT ![t][d] = op[e].status]
    /\ op' = [op EXCEPT ![e] = AfterHandler(@)]
    /\ UNCHANGED seen
    /\ UNCHANGED <<listing, actionable, monVars>>
    /\ UNCHANGED <<taskVars, engVars, lockFile, healthVars, ralphVars, retryVars>>

\* The human moves a descriptor from Pending_Approval to Approved or to
\* Rejected.
FsHumanMove(t) ==
    /\ file[t]["pending_approval"] # "absent"
    /\ \E to \in {"approved", "rejected"} :
          file' = [file EXCEPT ![t] = shutil_move(@, "pending_approval", to)]
    /\ UNCHANGED <<op, seen>>
    /\ UNCHANGED <<listing, actionable, monVars>>
    /\ UNCHANGED <<taskVars, engVars, lockFile, healthVars, ralphVars, retryVars>>

\* A reader of Needs_Action, the filter of another engine's run_cycle
\* (lines 794-796) or check_stale_pending of the monitor, reads the
\* descriptor of t while an engine is rewriting it.
FsObserve(t) ==
    /\ file[t]["available"] # "absent"
    /\ \E e \in Engines : /\ op[e].t = t
                           /\ op[e].at = "available"
                           /\ op[e].stage \in {"moved", "read", "opened"}
    /\ seen' = seen \cup {file[t]["available"]}
    /\ UNCHANGED <<file, op>>
    /\ UNCHANGED <<listing, actionable, monVars>>
    /\ UNCHANGED <<taskVars, engVars, lockFile, healthVars, ralphVars, retryVars>>

FsInit ==
    /\ file = [t \in Tasks |-> [d \in Dirs |-> IF d = "available" THEN "pending" ELSE "absent"]]
    /\ op = [e \in Engines |-> NoOp]
    /\ seen = {}

\* No directory is scanned.
ScanInit ==
    /\ listing = <<>>
    /\ actionable = NoList
    /\ MonInit
    /\ FsInit

\* ------------------------------------------------------------------------
\* Backoff and classification (error_recovery.py)
\* ------------------------------------------------------------------------

\* RETRY_CONFIG[cat]["base_delay"], in seconds.
base_delay(cat) ==
    CASE cat = "transient" -> 2
      [] cat = "rate_limit" -> 30
      [] cat = "component" -> 10
      [] OTHER -> 0

\* RETRY_CONFIG[cat]["max_delay"], in seconds.
max_delay(cat) ==
    CASE cat = "transient" -> 60
      [] cat = "rate_limit" -> 300
      [] cat = "component" -> 120
      [] OTHER -> 0

\* RETRY_CONFIG[cat]["jitter"].
jitter(cat) == cat \in {"transient", "rate_limit", "component"}

RECURSIVE Pow2(_)
Pow2(n) == IF n = 0 THEN 1 ELSE 2 * Pow2(n - 1)

Min(a, b) == IF a <= b THEN a ELSE b

\* A delay that grows by base_delay with every attempt.
backoff_linear(cat, attempt) == Min(base_delay(cat) * attempt, max_delay(cat))

\* with_retry, lines 214-217: min(base_delay * 2 ** (attempt - 1), max_delay).
backoff(cat, attempt) == Min(base_delay(cat) * Pow2(attempt - 1), max_delay(cat))

\* with_retry, lines 218-219: delay * (0.5 + random.random() * 0.5) when the
\* category has jitter.  random.random() returns one of the values
\* r / RandSteps, r in 0..RandSteps-1, of [0, 1); the result is counted in
\* units of 1 / (2 * RandSteps) second, so that it is a whole number.
jittered(cat, delay, r) ==
    IF jitter(cat) THEN delay * (RandSteps + r) ELSE delay * 2 * RandSteps

\* with_retry, lines 209-225, after the failed attempt number Len(slept) + 1
\* of category cat (classified anew for every exception): the attempt is
\* below the ceiling of cat, the delay is computed and slept.  Payment and
\* auth have raised before, the other categories with ceiling 1 break.
RetrySleep(cat, r) ==
    LET attempt == Len(slept) + 1 IN
    /\ cat \notin {"payment", "auth"}
    /\ attempt < MaxAttempts(cat)
    /\ slept' = Append(slept, [cat |-> cat, attempt |-> attempt,
                                unjittered |-> backoff(cat, attempt),
                                delay |-> jittered(cat, backoff(cat, attempt), r)])
    /\ UNCHANGED <<exc, classified>>
    /\ UNCHANGED <<taskVars, engVars, lockFile, healthVars, ralphVars, scanVars>>

\* with_retry returns or raises: the next call starts with attempt 1.
RetryReturn ==
    /\ slept # <<>>
    /\ slept' = <<>>
    /\ UNCHANGED <<exc, classified>>
    /\ UNCHANGED <<taskVars, engVars, lockFile, healthVars, ralphVars, scanVars>>

\* The words exception messages are made of: keywords of the five keyword
\* lists of classify_error and a word that is in none.
Vocabulary == {"401", "429", "INVOICE", "payment", "400", "503", "timed out"}

Messages == UNION {[1..n -> Vocabulary] : n \in 0..MaxLen}

\* classify_error, lines 110-112, 116-117, 121-122, 126-127, 131-133: the
\* keyword tuples.
Keywords ==
    [auth |-> {"401", "403", "unauthorized", "forbidden", "invalid credentials",
               "token expired", "authenticationerror"},
     rate_limit |-> {"429", "rate limit", "too many requests", "ratelimit",
                     "quota exceeded"},
     payment |-> {"payment", "invoice", "charge", "debit", "transfer",
                  "transaction failed"},
     permanent |-> {"400", "bad request", "invalid parameter", "schema",
                    "validation error"},
     component |-> {"503", "service unavailable", "connection refused",
                    "connection reset", "no route to host",
                    "name or service not known", "eof occurred"}]

\* any(kw in msg for kw in kws) on msg = str(exc).lower().
any_kw(msg, kws) == \E i \in DOMAIN msg : lower(msg[i]) \in kws

\* A classification that looks for payment keywords first.
classify_error_payment_first(msg) ==
    IF any_kw(msg, Keywords.payment) THEN "payment"
    ELSE IF any_kw(msg, Keywords.auth) THEN "auth"
    ELSE IF any_kw(msg, Keywords.rate_limit) THEN "rate_limit"
    ELSE IF any_kw(msg, Keywords.permanent) THEN "permanent"
    ELSE IF any_kw(msg, Keywords.component) THEN "component"
    ELSE "transient"

\* classify_error.
classify_error(msg) ==
    IF any_kw(msg, Keywords.auth) THEN "auth"
    ELSE IF any_kw(msg, Keywords.rate_limit) THEN "rate_limit"
    ELSE IF any_kw(msg, Keywords.payment) THEN "payment"
    ELSE IF any_kw(msg, Keywords.permanent) THEN "permanent"
    ELSE IF any_kw(msg, Keywords.component) THEN "component"
    ELSE "transient"

\* with_retry, line 177, without a forced category: the exception is
\* classified.
Classify ==
    /\ classified = "none"
    /\ classified' = classify_error(exc)
    /\ UNCHANGED <<slept, exc>>
    /\ UNCHANGED <<taskVars, engVars, lockFile, healthVars, ralphVars, scanVars>>

\* No call is in progress.
RetryInit ==
    /\ slept = <<>>
    /\ exc = <<>>
    /\ classified = "none"

\* ------------------------------------------------------------------------
\* Specification of the lifecycle engine
\* ------------------------------------------------------------------------

\* Watchers have queued the tasks; no engine has started; the lock file is
\* absent or left behind by a dead process.
Init ==
    /\ dir = [t \in Tasks |-> "available"]
    /\ fm = [t \in Tasks |-> NewDescriptor(SourceOf(t))]
    /\ comp = [t \in Tasks |-> IF fm[t].source = "gmail" THEN "none" ELSE "available"]
    /\ pc = [e \in Engines |-> "init"]
    /\ batch = [e \in Engines |-> {}]
    /\ cur = [e \in Engines |-> 0]
    /\ lockFile \in {0, -1}
    /\ fails = [t \in Tasks |-> 0]
    /\ wasPending = [t \in Tasks |-> FALSE]
    /\ stale = [t \in Tasks |-> FALSE]
    /\ HealthInit
    /\ RalphInit
    /\ ScanInit
    /\ RetryInit

Next ==
    \/ \E e \in Engines : LockCheck(e)
    \/ \E e \in Engines : LockWrite(e)
    \/ \E e \in Engines : Stop(e)
    \/ \E e \in Engines : StartCycle(e)
    \/ \E e \in Engines : Claim(e)
    \/ \E e \in Engines : Process(e)
    \/ \E e \in Engines : Poll(e)
    \/ \E t \in Tasks : HumanDecides(t)

Spec == Init /\ [][Next]_vars

\* ------------------------------------------------------------------------
\* Properties of the lifecycle engine
\* ------------------------------------------------------------------------

\* C1: claim is exclusive.  At any time at most one engine holds a claim on a
\* descriptor, the holder's descriptor is in In_Progress, and a claim_file
\* that fails with not-found moves and rewrites nothing.
C1_ClaimExclusive ==
    /\ [](\A t \in Tasks :
            /\ Cardinality({e \in Engines : cur[e] = t}) <= 1
            /\ (\A e \in Engines : cur[e] = t =>
                    dir[t] = "owned" /\ fm[t].status = "in_progress"))
    /\ [][\A e \in Engines :
            (pc[e] # "claim_failed" /\ pc'[e] = "claim_failed")
               => UNCHANGED <<dir, comp, fm>>]_vars

\* Two engines raced for the descriptor: one holds it, the other got not-found.
C1_Witness ==
    \E e1, e2 \in Engines, t \in Tasks :
       /\ pc[e1] = "claim_failed"
       /\ cur[e2] = t
       /\ dir[t] = "owned"
       /\ fm[t].status = "in_progress"

\* C2: the process lock gives mutual exclusion: at most one live engine has
\* obtained True from acquire_lock and not yet released it.
C2_LockMutualExclusion == Cardinality({e \in Engines : Running(e)}) <= 1

\* C4: a task whose processing result sets approval_required=true is never in
\* Done without having been in Pending_Approval before.
C4_ApprovalBeforeDone ==
    \A t \in Tasks :
       (dir[t] = "done" /\ fm[t].approval_required = "true") => wasPending[t]

\* A flagged task has gone the whole way: routed, decided by the human, done.
C4_Witness ==
    \E t \in Tasks :
       /\ dir[t] = "done"
       /\ fm[t].approval_required = "true"
       /\ fm[t].approval_status \in {"approved", "rejected"}
       /\ wasPending[t]

C6_RetryCountCountsFailures ==
    /\ [](\A t \in Tasks : fm[t].retry_count = fails[t])
    /\ [][\A t \in Tasks : fm'[t].retry_count >= fm[t].retry_count]_vars

\* ------------------------------------------------------------------------
\* Specification of the error recovery engine
\* ------------------------------------------------------------------------

\* No engine is started; the task descriptors stay where the watchers put them.
LifeIdle ==
    /\ dir = [t \in Tasks |-> "available"]
    /\ fm = [t \in Tasks |-> NewDescriptor("file_drop")]
    /\ comp = [t \in Tasks |-> "available"]
    /\ pc = [e \in Engines |-> "init"]
    /\ batch = [e \in Engines |-> {}]
    /\ cur = [e \in Engines |-> 0]
    /\ lockFile = 0
    /\ fails = [t \in Tasks |-> 0]
    /\ wasPending = [t \in Tasks |-> FALSE]
    /\ stale = [t \in Tasks |-> FALSE]

InitHealth == LifeIdle /\ HealthInit /\ RalphInit /\ ScanInit /\ RetryInit

NextHealth ==
    \/ \E c \in Components, forced \in {"none", "transient"} : SafeCallBegin(c, forced)
    \/ \E outcome \in Outcomes, fallback \in BOOLEAN : Attempt(outcome, fallback)
    \/ \E c \in Components : Flush(c)
    \/ \E p \in Payloads : HumanApprovesPayment(p)

SpecHealth == InitHealth /\ [][NextHealth]_vars

\* C3: a payment action is never retried automatically: a payload whose call
\* failed with a payment error is not handed to the integration again (here:
\* replayed from the offline queue) before a human has approved it afresh.
C3_PaymentNeverReplayed ==
    [][\A c \in Components :
          \A i \in 1..Len(replayed') :
             replayed'[i].payload \notin UnapprovedPayments(c)]_vars

\* C22: any success resets the consecutive-failure counter: the step that
\* ends a call with success leaves the counter at 0 and the status healthy,
\* a step that ends a call with a failure adds one to the counter, and
\* component_recovered is logged exactly by a success on a component that
\* was down.
C22_SuccessResetsCounter ==
    [][\A c \in Components :
          /\ (call.active /\ call.comp = c /\ ~call'.active
                 /\ health'[c].status = "healthy")
                => /\ health'[c].failures = 0
                   /\ (c \in events') <=> (health[c].status = "down")
          /\ (call.active /\ call.comp = c /\ ~call'.active
                 /\ health'[c].status # "healthy")
                => /\ health'[c].failures = health[c].failures + 1
                   /\ c \notin events'
          /\ ~(call.active /\ call.comp = c) => c \notin events']_vars

\* Failure, failure, success, failure: the counter is at 1 after the fourth
\* call.
C22_Witness ==
    \E c \in Components :
       nCalls = 4 /\ ~call.active /\ health[c].failures = 1 /\ compAlerts[c] = 0
          /\ payAlerts + authAlerts[c] = 0 /\ health[c].status = "degraded"
          /\ \A d \in Components \ {c} : health[d] = NoHealth

\* C23: an offline queue item is created for a component only when the
\* component is down and its degradation rule is queue_to_local; an item is
\* deleted only by a flush whose handler returned success for it.
C23_QueueOnlyWhenBreakerOpen ==
    [][\A c \in Components :
          /\ (queue'[c] \ queue[c] # {})
                => /\ health'[c].status = "down"
                   /\ get_degradation_rule(c) = "queue_to_local"
          /\ \A item \in queue[c] \ queue'[c] :
                \E i \in 1..Len(replayed') :
                   replayed'[i].payload = item.payload /\ replayed'[i].ok]_vars

\* C24: flush_offline_queue removes exactly the items whose handler returned
\* success, leaves the others as they are, returns the sizes of the two
\* groups, and invokes the handler on exactly the items that are queued when
\* it starts (after a partial flush: the items that remained).
C24_FlushRemovesExactlySuccesses ==
    [][flushResult'.valid =>
          LET c == flushResult'.comp
              calls == {replayed'[i] : i \in 1..Len(replayed')}
          IN
          /\ {x.payload : x \in calls} = {item.payload : item \in queue[c]}
          /\ Len(replayed') = Cardinality(queue[c])
          /\ queue'[c] = {item \in queue[c] :
                            [payload |-> item.payload, ok |-> FALSE] \in calls}
          /\ flushResult'.success = Cardinality({x \in calls : x.ok})
          /\ flushResult'.failure = Cardinality({x \in calls : ~x.ok})
          /\ \A d \in Components \ {c} : queue'[d] = queue[d]]_vars

\* A flush has replayed one of two queued items and left the other.
C24_Witness ==
    /\ flushResult.valid
    /\ flushResult.success = 1
    /\ flushResult.failure = 1
    /\ Cardinality(queue[flushResult.comp]) = 1

\* C25: a flush of a component whose queue is empty or absent returns (0, 0),
\* invokes no handler and changes no queue.
C25_FlushEmptyIsNoop ==
    [][(flushResult'.valid /\ queue[flushResult'.comp] = {})
          => /\ flushResult'.success = 0
             /\ flushResult'.failure = 0
             /\ replayed' = <<>>
             /\ queue' = queue]_vars

\* A flush of a component that has no queue has returned, after another
\* component's queue has got an item.
C25_Witness ==
    /\ flushResult.valid
    /\ queue[flushResult.comp] = {}
    /\ flushResult.success + flushResult.failure = 0
    /\ \E c \in Components : queue[c] # {}

\* C26: within one flush the handler is invoked oldest first: the calls are
\* in ascending order of the enqueue times of their items (every call is on
\* an item queued later than the item of the call before it).
C26_FlushOldestFirst ==
    [][flushResult'.valid =>
          \A i \in 1..(Len(replayed') - 1) :
             \A a, b \in queue[flushResult'.comp] :
                (a.payload = replayed'[i].payload /\ b.payload = replayed'[i + 1].payload)
                   => a.ts < b.ts]_vars

\* A flush has called the handler on two items.
C26_Witness == flushResult.valid /\ Len(replayed) = 2

\* C7: the third consecutive failure, and only the third, opens the breaker
\* and writes the one component-down alert: the status is down exactly from
\* three consecutive failures on, and a step adds an alert exactly when it
\* takes the counter from 2 to 3.
C7_ThirdFailureOpensBreaker ==
    /\ [](\A c \in Components :
            /\ (health[c].status = "down") <=> (health[c].failures >= 3)
            /\ (health[c].failures \in {1, 2}) => (health[c].status = "degraded"))
    /\ [][\A c \in Components :
            compAlerts'[c] =
               compAlerts[c] + (IF health[c].failures = 2 /\ health'[c].failures = 3
                                THEN 1 ELSE 0)]_vars

\* Four consecutive failures of one integration: down, and still one alert.
C7_Witness ==
    \E c \in Components :
       health[c].failures = 4 /\ health[c].status = "down" /\ compAlerts[c] = 1

\* ------------------------------------------------------------------------
\* Specifications of the watchdog
\* ------------------------------------------------------------------------

\* SpecRalph: the loop and the stuck scan on their own.  The engine was
\* killed after it had claimed the descriptors, which sit in In_Progress.
InitRalph ==
    /\ dir = [t \in Tasks |-> "owned"]
    /\ fm = [t \in Tasks |-> [NewDescriptor("file_drop") EXCEPT !.status = "in_progress"]]
    /\ comp = [t \in Tasks |-> "owned"]
    /\ pc = [e \in Engines |-> "dead"]
    /\ batch = [e \in Engines |-> {}]
    /\ cur = [e \in Engines |-> 0]
    /\ lockFile = -1
    /\ fails = [t \in Tasks |-> 0]
    /\ wasPending = [t \in Tasks |-> FALSE]
    /\ stale = [t \in Tasks |-> FALSE]
    /\ HealthInit
    /\ RalphInit
    /\ ScanInit
    /\ RetryInit

NextRalph ==
    \/ \E t \in Tasks : TimePasses(t)
    \/ \E t \in Tasks : StuckTrigger(t)
    \/ \E n \in {NoneArg} \cup 0..MaxN, never \in BOOLEAN : RalphCall(n, never)
    \/ RalphIterate
    \/ RalphFinalize
    \/ RalphCrash

SpecRalph == InitRalph /\ [][NextRalph]_vars

\* SpecRecover: the one engine of the deployment holds the lock and runs
\* cycles; it may be killed at any point and is started again; the watchdog
\* scans In_Progress and runs the loop.
Deployed == 1

InitRecover ==
    /\ dir = [t \in Tasks |-> "available"]
    /\ fm = [t \in Tasks |-> NewDescriptor("file_drop")]
    /\ comp = [t \in Tasks |-> "available"]
    /\ pc = [e \in Engines |-> IF e = Deployed THEN "idle" ELSE "refused"]
    /\ batch = [e \in Engines |-> {}]
    /\ cur = [e \in Engines |-> 0]
    /\ lockFile = Deployed
    /\ fails = [t \in Tasks |-> 0]
    /\ wasPending = [t \in Tasks |-> FALSE]
    /\ stale = [t \in Tasks |-> FALSE]
    /\ HealthInit
    /\ RalphInit
    /\ ScanInit
    /\ RetryInit

\* The steps of the engine and of the watchdog.
EngineStep ==
    \/ Start(Deployed) \/ LockCheck(Deployed) \/ LockWrite(Deployed)
    \/ StartCycle(Deployed) \/ Claim(Deployed) \/ Process(Deployed) \/ Poll(Deployed)

WatchdogStep ==
    \/ \E t \in Tasks : StuckTrigger(t)
    \/ RalphIterate
    \/ RalphFinalize

NextRecover ==
    \/ Start(Deployed)
    \/ LockCheck(Deployed)
    \/ LockWrite(Deployed)
    \/ StartCycle(Deployed)
    \/ Claim(Deployed)
    \/ Process(Deployed)
    \/ Poll(Deployed)
    \/ Kill(Deployed)
    \/ \E t \in Tasks : HumanDecides(t)
    \/ \E t \in Tasks : TimePasses(t)
    \/ \E t \in Tasks : StuckTrigger(t)
    \/ RalphIterate
    \/ RalphFinalize

\* The engine polls in a loop and is started again when it has ended, and the
\* watchdog scans periodically: a step of either that stays possible is
\* taken.  A kill, the human and the passing of time are not forced.
SpecRecover ==
    InitRecover /\ [][NextRecover]_vars /\ WF_vars(EngineStep) /\ WF_vars(WatchdogStep)

\* C8: run_ralph_loop with max_iterations = N and an oracle that is never
\* satisfied invokes the backend exactly N times, returns
\* max_iterations_reached with completed false and iterations_used N, and
\* writes exactly one exhaustion alert.
C8_ExactlyNInvocations ==
    (lastResult.valid /\ lastResult.never /\ lastResult.n # NoneArg) =>
        /\ lastResult.calls = lastResult.n
        /\ lastResult.status = "max_iterations_reached"
        /\ ~lastResult.completed
        /\ lastResult.iterations_used = lastResult.n
        /\ lastResult.alerts = 1

\* C9: the loop resumes after a restart.  Running the loop again for an id
\* whose record was left as running at iteration k keeps current_iteration
\* at k, and with the same ceiling the invocations before and after the
\* restart together stay within max_iterations.
C9_ResumesAfterRestart ==
    /\ [][\A i \in RalphIds :
            (~loop.active /\ loop'.active /\ loop'.id = i /\ rstate[i].status = "running")
               => rstate'[i].current_iteration = rstate[i].current_iteration]_vars
    /\ [](loop.active /\ loop.found > 0 /\ loop.found_max = loop.max_iters
            => inv[loop.id] <= loop.max_iters)

\* C27: the loop stops on the first satisfied completion.  Once the oracle is
\* satisfied after invocation k the backend is not invoked again, and the
\* loop returns completed with iterations_used = k <= max_iterations, the
\* state record deleted and no exhaustion alert.
C27_StopsOnFirstCompletion ==
    [][(loop.active /\ loop.completed) =>
          /\ inv' = inv \/ ~loop'.active
          /\ loop'.active => loop' = loop
          /\ lastResult'.valid =>
                /\ lastResult'.status = "completed"
                /\ lastResult'.completed
                /\ lastResult'.calls = loop.calls
                /\ lastResult'.iterations_used = loop.calls
                /\ loop.calls <= loop.max_iters
                /\ rstate'[loop.id].status = "none"
                /\ exhAlerts' = exhAlerts]_vars

\* A loop with the default ceiling has returned completed after its second
\* invocation.
C27_Witness ==
    /\ lastResult.valid
    /\ lastResult.completed
    /\ lastResult.n = NoneArg
    /\ lastResult.calls = 2
    /\ lastResult.iterations_used = 2

\* C28: an exhausted watchdog loop is not retried: while the state record the
\* exhausted loop left for a stuck task exists, no scan starts a loop for the
\* task, so that the backend is not invoked for it and no second alert is
\* written.
C28_ExhaustedNotRetried ==
    [][\A t \in Tasks :
          rstate[t].status = "max_iterations_reached" =>
             /\ ~(loop'.active /\ loop'.id = t)
             /\ inv'[t] = inv[t]
             /\ exhAlerts'[t] = exhAlerts[t]
             /\ exhAlerts[t] = 1]_vars

\* The loop for a stuck task is exhausted and the task is still stuck: the
\* next scan finds it in In_Progress, old enough, and skips it.
C28_Witness ==
    \E t \in Tasks :
       /\ rstate[t].status = "max_iterations_reached"
       /\ dir[t] = "owned" /\ stale[t]
       /\ ~loop.active
       /\ exhAlerts[t] = 1

\* C10: a descriptor that sits in In_Progress beyond the stuck threshold is
\* eventually moved out of In_Progress by the watchdog and the engine.
C10_StuckEventuallyRecovered ==
    \A t \in Tasks : (dir[t] = "owned" /\ stale[t]) ~> (dir[t] # "owned")

\* ------------------------------------------------------------------------
\* Specification of one engine that runs cycles for ever
\* ------------------------------------------------------------------------

\* SpecCycle: the deployed engine holds the lock and is never killed; main
\* calls run_cycle again and again (lines 867-871), and an engine that was
\* stopped between two cycles is started again, so a step of the engine that
\* stays possible is taken.  The stop and the human are not forced.
NextCycle ==
    \/ Start(Deployed)
    \/ LockCheck(Deployed)
    \/ LockWrite(Deployed)
    \/ Stop(Deployed)
    \/ StartCycle(Deployed)
    \/ Claim(Deployed)
    \/ Process(Deployed)
    \/ Poll(Deployed)
    \/ \E t \in Tasks : HumanDecides(t)

SpecCycle == InitRecover /\ [][NextCycle]_vars /\ WF_vars(EngineStep)

\* C11: approved and rejected descriptors are polled in every cycle, also
\* when Needs_Action holds no pending task: a descriptor the human has moved
\* to Approved or Rejected reaches Done.
C11_ApprovedPolledEveryCycle ==
    \A t \in Tasks : (dir[t] \in {"approved", "rejected"}) ~> (dir[t] = "done")

\* ------------------------------------------------------------------------
\* Specification of the alert files of error_recovery.py
\* ------------------------------------------------------------------------

\* A second passes.  The alert writers read the clock to the second
\* (strftime("%Y%m%d_%H%M%S"), lines 246, 296 and 412); a call that fails
\* with a payment error neither sleeps nor retries (RETRY_CONFIG, lines
\* 77-82), so that two calls may fail within one second.
Tick ==
    /\ now < MaxTime
    /\ now' = now + 1
    /\ UNCHANGED <<taskVars, engVars, lockFile, ralphVars, scanVars, retryVars, health, compAlerts,
                   payAlerts, payFiles, authAlerts, queue, call, nCalls,
                   replayed, flushResult, events, approvedPay>>

\* The human acts on the auth alerts of component c as the alert asks (lines
\* 265-270): the credentials are fixed and the alert files are moved out of
\* Needs_Action.
HumanHandlesAuth(c) ==
    /\ authAlerts[c] > 0
    /\ authAlerts' = [authAlerts EXCEPT ![c] = 0]
    /\ UNCHANGED <<taskVars, engVars, lockFile, ralphVars, scanVars, retryVars, health, compAlerts,
                   payAlerts, payFiles, now, queue, call, nCalls, replayed,
                   flushResult, events,
                   approvedPay>>

NextAlerts ==
    \/ \E c \in Components : SafeCallBegin(c, "none")
    \/ \E outcome \in Outcomes, fallback \in BOOLEAN : Attempt(outcome, fallback)
    \/ Tick
    \/ \E c \in Components : HumanHandlesAuth(c)

SpecAlerts == InitHealth /\ [][NextAlerts]_vars

\* C12: a call that fails with a payment error leaves every descriptor's
\* retry_count as it was and adds exactly one PAYMENT_ERROR file to
\* Pending_Approval.
C12_PaymentOneArtifact ==
    [][payAlerts' = payAlerts + 1 =>
          /\ \A t \in Tasks : fm'[t].retry_count = fm[t].retry_count
          /\ Cardinality(payFiles') = Cardinality(payFiles) + 1]_vars

\* with_retry invokes the integration function of component c in this step
\* (func(*args, **kwargs), line 174).
Invokes(c) == call.active /\ call.comp = c /\ call' # call

\* C13: an auth failure halts the integration: while an auth alert of
\* component c waits for the human, no call for c invokes the integration
\* function.
C13_AuthHaltsIntegration ==
    [][\A c \in Components : authAlerts[c] > 0 => ~Invokes(c)]_vars

\* C14: no terminal failure is silent.  The step that quarantines a task
\* writes an alert file, the step that takes a component to down writes the
\* component alert, and the step that ends a watchdog loop in
\* max_iterations_reached writes the exhaustion alert.
C14_NoSilentTerminalFailure ==
    [][/\ (\E t \in Tasks : dir[t] # "quarantined" /\ dir'[t] = "quarantined")
             => <<compAlerts, payFiles, authAlerts, exhAlerts>>'
                    # <<compAlerts, payFiles, authAlerts, exhAlerts>>
       /\ \A c \in Components :
             (health[c].status # "down" /\ health'[c].status = "down")
                 => compAlerts'[c] = compAlerts[c] + 1
       /\ \A i \in RalphIds :
             (rstate[i].status # "max_iterations_reached"
                  /\ rstate'[i].status = "max_iterations_reached")
                 => exhAlerts'[i] = exhAlerts[i] + 1]_vars

\* C15: a failure of one task never stops the engine: no engine ends a cycle
\* with an exception raised while it claimed or processed a task.
C15_TaskFailureNeverCrash ==
    \A e \in Engines : pc[e] # "claim_failed"

\* The status agrees with its directory: Needs_Action - pending, In_Progress -
\* in_progress, Pending_Approval - pending_approval, Done - done, Quarantine -
\* quarantined.  A descriptor the human has moved to Approved or Rejected
\* was written last by route_to_approval.
StatusOfDir(d) ==
    CASE d = "available" -> "pending"
      [] d = "owned" -> "in_progress"
      [] d \in {"pending_approval", "approved", "rejected"} -> "pending_approval"
      [] d = "done" -> "done"
      [] d = "quarantined" -> "quarantined"

C19_FailTwiceThenSucceed ==
    /\ [](\A t \in Tasks : fails[t] <= 2 => dir[t] # "quarantined")
    /\ [][\A t \in Tasks :
            (/\ dir[t] = "owned" /\ dir'[t] # "owned"
             /\ fails[t] = 2 /\ fails'[t] = 2
             /\ ~evaluate_hitl(fm'[t]))
               => /\ dir'[t] = "done"
                  /\ fm'[t].status = "done"
                  /\ fm'[t].retry_count = 2]_vars

\* Two failures, then a success that needed no approval.
C19_Witness ==
    \E t \in Tasks :
       /\ dir[t] = "done" /\ fails[t] = 2 /\ ~wasPending[t]
       /\ fm[t].status = "done" /\ fm[t].retry_count = 2

\* ------------------------------------------------------------------------
\* Specification of the lifecycle engine over descriptors of any source
\* ------------------------------------------------------------------------

\* As Init, but every descriptor may have been queued by either watcher.
InitIngest ==
    /\ dir = [t \in Tasks |-> "available"]
    /\ fm \in [Tasks -> {NewDescriptor(src) : src \in Sources}]
    /\ comp = [t \in Tasks |-> IF fm[t].source = "gmail" THEN "none" ELSE "available"]
    /\ pc = [e \in Engines |-> "init"]
    /\ batch = [e \in Engines |-> {}]
    /\ cur = [e \in Engines |-> 0]
    /\ lockFile \in {0, -1}
    /\ fails = [t \in Tasks |-> 0]
    /\ wasPending = [t \in Tasks |-> FALSE]
    /\ stale = [t \in Tasks |-> FALSE]
    /\ HealthInit
    /\ RalphInit
    /\ ScanInit
    /\ RetryInit

SpecIngest == InitIngest /\ [][Next]_vars

\* C18: the ingestion fields of a descriptor are stable: no step changes the
\* source a descriptor was queued with.
C18_IngestionFieldsStable ==
    [][\A t \in Tasks : fm'[t].source = fm[t].source]_vars

\* C20: a descriptor that processing leaves as a high priority invoice goes
\* to Pending_Approval and not to Done; it enters Done only out of Approved
\* or Rejected; and once the human has moved it to Approved the engine
\* relocates it to Done with status done and approval_status approved.
C20_InvoiceWaitsForApproval ==
    /\ [][\A t \in Tasks :
            /\ (/\ dir[t] = "owned" /\ dir'[t] \notin {"owned", "available", "quarantined"}
                 /\ fm'[t].type = "invoice" /\ fm'[t].priority = "high")
                   => dir'[t] = "pending_approval"
            /\ (wasPending[t] /\ dir[t] # "done" /\ dir'[t] = "done")
                   => dir[t] \in {"approved", "rejected"}
            /\ (dir[t] = "approved" /\ dir'[t] # "approved")
                   => /\ dir'[t] = "done"
                      /\ fm'[t].status = "done"
                      /\ fm'[t].approval_status = "approved"]_vars
    /\ \A t \in Tasks :
          (dir[t] = "approved" /\ fm[t].type = "invoice" /\ fm[t].priority = "high")
             ~> (dir[t] = "done" /\ fm[t].approval_status = "approved")

\* ------------------------------------------------------------------------
\* Specification of the approval rules over every processed descriptor
\* ------------------------------------------------------------------------

\* The values a processed descriptor may hold in the four keys evaluate_hitl
\* reads.
HitlFlags == {"", "true", "false"}

HitlTypes == {"invoice", "INVOICE", "contract", "linkedin_post", "other"}

HitlPriorities == {"high", "medium", "low"}

HitlSources == {"file_drop", "gmail", "whatsapp"}

\* The deployed engine has claimed every task and its backend has returned
\* with success; the descriptors hold any combination of the four keys.
InitHitl ==
    /\ dir = [t \in Tasks |-> "owned"]
    /\ fm \in [Tasks -> {[status |-> "done", retry_count |-> 0, type |-> ty,
                          priority |-> pr, approval_required |-> fl,
                          approval_status |-> "", source |-> src,
                          header |-> TRUE] :
                            ty \in HitlTypes, pr \in HitlPriorities,
                            fl \in HitlFlags, src \in HitlSources}]
    /\ comp = [t \in Tasks |-> "owned"]
    /\ pc = [e \in Engines |-> IF e = Deployed THEN "process" ELSE "refused"]
    /\ batch = [e \in Engines |-> {}]
    /\ cur = [e \in Engines |-> 0]
    /\ lockFile = Deployed
    /\ fails = [t \in Tasks |-> 0]
    /\ wasPending = [t \in Tasks |-> FALSE]
    /\ stale = [t \in Tasks |-> FALSE]
    /\ HealthInit
    /\ RalphInit
    /\ ScanInit
    /\ RetryInit

\* run_cycle, lines 818-825: the branch taken after process_file returned
\* True for task t.
Evaluate(t) ==
    /\ dir[t] = "owned"
    /\ IF evaluate_hitl(fm[t]) THEN route_to_approval(t, fm[t])
                               ELSE move_to_done(t, fm[t])
    /\ UNCHANGED <<fails, stale, engVars, lockFile, healthVars, ralphVars, scanVars, retryVars>>

NextHitl == \E t \in Tasks : Evaluate(t)

SpecHitl == InitHitl /\ [][NextHitl]_vars

\* C21: a processed descriptor is routed to Pending_Approval exactly when
\* approval_required is true, or the type is invoice or contract and the
\* priority high, or the source is gmail and the priority high, or the type
\* is linkedin_post; in every other case it goes straight to Done.
C21_HitlDecisionTable ==
    [][\A t \in Tasks :
          (dir[t] = "owned" /\ dir'[t] # "owned") =>
             LET f == fm[t]
                 ty == IF f.type = "INVOICE" THEN "invoice" ELSE f.type
                 rule == \/ f.approval_required = "true"
                         \/ (ty = "invoice" /\ f.priority = "high")
                         \/ (ty = "contract" /\ f.priority = "high")
                         \/ (f.source = "gmail" /\ f.priority = "high")
                         \/ ty = "linkedin_post"
             IN dir'[t] = IF rule THEN "pending_approval" ELSE "done"]_vars

\* An invoice of medium priority from a file drop, not flagged, has gone
\* straight to Done.
C21_Witness ==
    \E t \in Tasks :
       /\ dir[t] = "done" /\ fm[t].type = "invoice" /\ fm[t].priority = "medium"
       /\ fm[t].approval_required = "false" /\ fm[t].source = "file_drop"

\* ------------------------------------------------------------------------
\* Specification of the process lock over every content of the lock file
\* ------------------------------------------------------------------------

\* As Init, but the lock file a starting engine meets may also name a live
\* process of another user.
InitLock ==
    /\ dir = [t \in Tasks |-> "available"]
    /\ fm = [t \in Tasks |-> NewDescriptor(SourceOf(t))]
    /\ comp = [t \in Tasks |-> IF fm[t].source = "gmail" THEN "none" ELSE "available"]
    /\ pc = [e \in Engines |-> "init"]
    /\ batch = [e \in Engines |-> {}]
    /\ cur = [e \in Engines |-> 0]
    /\ lockFile \in {0, -1, ForeignPid}
    /\ fails = [t \in Tasks |-> 0]
    /\ wasPending = [t \in Tasks |-> FALSE]
    /\ stale = [t \in Tasks |-> FALSE]
    /\ HealthInit
    /\ RalphInit
    /\ ScanInit
    /\ RetryInit

\* The engines of Spec; an engine that has ended is started again.
NextLock ==
    \/ Next
    \/ \E e \in Engines : Start(e)

SpecLock == InitLock /\ [][NextLock]_vars

\* C29: acquire_lock returns False, and leaves the lock file as it is,
\* exactly when the file exists and names a process that is alive; otherwise
\* (no file, a dead PID, unparsable content) it goes on to write the caller's
\* PID and returns True.
C29_AcquireLockDecision ==
    [][\A e \in Engines :
          /\ (pc[e] = "init" /\ pc'[e] # "init") =>
                /\ (pc'[e] = "refused") <=> (lockFile # 0 /\ PidAlive(lockFile))
                /\ (pc'[e] # "refused") => pc'[e] = "lock_write"
                /\ lockFile' = lockFile
          /\ (pc[e] = "lock_write" /\ pc'[e] # "lock_write") =>
                (lockFile' = e /\ pc'[e] = "idle")]_vars

NextRetry ==
    \/ \E c \in Components, forced \in {"none"} \cup Categories : SafeCallBegin(c, forced)
    \/ \E outcome \in {"ok"} \cup Categories : Attempt(outcome, FALSE)

SpecRetry == InitHealth /\ [][NextRetry]_vars

\* C31: with_retry follows the ceiling of the category: the pass that fails
\* at attempt k with category cat (the forced one, or the classified one)
\* goes on to attempt k + 1 exactly when k is below the ceiling of cat
\* (transient 5, rate_limit 4, component 3, permanent 1, auth 1, payment 1)
\* and raises otherwise; a pass that succeeds at attempt k returns at once;
\* no call gets beyond its fifth invocation.
C31_AttemptCeiling ==
    /\ [](call.active => call.attempt \in 1..5)
    /\ [][\A outcome \in {"ok"} \cup Categories :
            Attempt(outcome, FALSE) =>
               LET cat == IF call.forced # "none" THEN call.forced ELSE outcome
                   ceiling == CASE cat = "transient" -> 5
                                [] cat = "rate_limit" -> 4
                                [] cat = "component" -> 3
                                [] OTHER -> 1
               IN
               IF outcome = "ok"
               THEN ~call'.active /\ health'[call.comp].status = "healthy"
               ELSE /\ call'.active <=> call.attempt < ceiling
                    /\ call'.active => (call'.attempt = call.attempt + 1
                                        /\ health' = health)
                    /\ ~call'.active =>
                          health'[call.comp].failures = health[call.comp].failures + 1]_vars

\* The fifth invocation of a call without a forced category is due: four
\* passes have failed with a transient error.
C31_Witness == call.active /\ call.attempt = 5 /\ call.forced = "none"

\* C32: payment and auth failures are surfaced at once, at whatever attempt:
\* the pass in which the function raises a payment or an auth error writes
\* the alert of that category and ends the call, also when the caller has
\* forced another category.
C32_PaymentAuthSurfacedAtOnce ==
    [][\A outcome \in {"payment", "auth"} :
          Attempt(outcome, FALSE) =>
             /\ ~call'.active
             /\ outcome = "payment" => payAlerts' = payAlerts + 1
             /\ outcome = "auth" =>
                   authAlerts'[call.comp] = authAlerts[call.comp] + 1]_vars

\* ------------------------------------------------------------------------
\* Specification of the batch selection of run_cycle
\* ------------------------------------------------------------------------

\* Modification times: the files are pairwise of different age; file 1 is
\* the oldest, or the youngest.
MtimeOrders == {[i \in Files |-> i], [i \in Files |-> NumFiles + 1 - i]}

\* A Needs_Action directory with NumFiles descriptors: up to two of them with
\* a status other than pending, up to one a Twitter mention, the rest pending
\* descriptors of dropped files.
InitBatch ==
    /\ LifeIdle
    /\ HealthInit
    /\ RalphInit
    /\ actionable = NoList
    /\ MonInit
    /\ FsInit
    /\ RetryInit
    /\ \E mt \in MtimeOrders, other \in SUBSET Files, tw \in SUBSET Files :
          /\ Cardinality(other) <= 2
          /\ Cardinality(tw) <= 1
          /\ listing = [i \in Files |->
                          [prefix |-> IF i \in tw THEN "TWITTER_MENTION" ELSE "FILE",
                           status |-> IF i \in other /\ i \notin tw
                                      THEN "in_progress" ELSE "pending",
                           mtime |-> mt[i]]]

NextBatch == RunCycleList

SpecBatch == InitBatch /\ [][NextBatch]_vars

\* C33: one run_cycle takes a bounded batch in time order: at most
\* MAX_BATCH_SIZE descriptors, each of them in Needs_Action with status
\* pending, in ascending order of modification time, and every pending
\* descriptor it leaves out is younger than every descriptor it takes.
C33_BoundedBatchInTimeOrder ==
    actionable.ran =>
       LET a == actionable.files
           taken == {a[i] : i \in 1..Len(a)}
       IN
       /\ Len(a) <= MAX_BATCH_SIZE
       /\ \A i \in 1..Len(a) : listing[a[i]].status = "pending"
       /\ \A i, j \in 1..Len(a) : i < j => listing[a[i]].mtime < listing[a[j]].mtime
       /\ \A f \in Files \ taken :
             listing[f].status = "pending" =>
                /\ Len(a) = MAX_BATCH_SIZE
                /\ \A g \in taken : listing[g].mtime < listing[f].mtime

\* ------------------------------------------------------------------------
\* Specification of one engine whose backend may fail over a damaged descriptor
\* ------------------------------------------------------------------------

\* SpecFail: the deployed engine holds the lock and is neither stopped nor
\* killed; main calls run_cycle again and again (lines 867-871), so a step
\* of the cycle that stays possible is taken.  Its backend may fail after it
\* has taken the header block out of the descriptor.  The human is not
\* forced.
NextFail ==
    \/ StartCycle(Deployed)
    \/ Claim(Deployed)
    \/ Process(Deployed)
    \/ ProcessDamaged(Deployed)
    \/ Poll(Deployed)
    \/ \E t \in Tasks : HumanDecides(t)

\* As InitRecover, but every descriptor may have been queued by either
\* watcher.
InitFail ==
    /\ dir = [t \in Tasks |-> "available"]
    /\ fm \in [Tasks -> {NewDescriptor(src) : src \in Sources}]
    /\ comp = [t \in Tasks |-> IF fm[t].source = "gmail" THEN "none" ELSE "available"]
    /\ pc = [e \in Engines |-> IF e = Deployed THEN "idle" ELSE "refused"]
    /\ batch = [e \in Engines |-> {}]
    /\ cur = [e \in Engines |-> 0]
    /\ lockFile = Deployed
    /\ fails = [t \in Tasks |-> 0]
    /\ wasPending = [t \in Tasks |-> FALSE]
    /\ stale = [t \in Tasks |-> FALSE]
    /\ HealthInit
    /\ RalphInit
    /\ ScanInit
    /\ RetryInit

SpecFail ==
    /\ InitFail
    /\ [][NextFail]_vars
    /\ WF_vars(StartCycle(Deployed) \/ Claim(Deployed) \/ Process(Deployed) \/ Poll(Deployed))

\* C34: under repeated cycles of an engine that does not crash, every
\* descriptor in Needs_Action with status pending eventually reaches Done,
\* Pending_Approval or Quarantine, and the backend is invoked for a task at
\* most MAX_RETRIES times.
C34_EveryTaskResolvedWithinMaxRetries ==
    /\ \A t \in Tasks :
          (dir[t] = "available" /\ fm[t].status = "pending")
             ~> (dir[t] \in {"done", "pending_approval", "quarantined"})
    /\ [](\A t \in Tasks :
            fails[t] + (IF dir[t] \in {"done", "pending_approval", "approved", "rejected"}
                        THEN 1 ELSE 0) <= MAX_RETRIES)

\* C39: when handle_failure has returned, the task is in Quarantine, or in
\* Needs_Action with status pending, whatever the failed backend has left
\* in the descriptor.
C39_FailedTaskStaysSchedulable ==
    [][\A t \in Tasks :
          fails'[t] = fails[t] + 1 =>
             \/ dir'[t] = "quarantined"
             \/ dir'[t] = "available" /\ fm'[t].status = "pending"]_vars

\* ------------------------------------------------------------------------
\* Specification of the monitor
\* ------------------------------------------------------------------------

\* SpecMon: the checks run again and again while the vault changes and the
\* human moves alert files away.
NextMon ==
    \/ RunRalphChecks
    \/ VaultChanges
    \/ HumanMovesAlert

SpecMon == InitHealth /\ [][NextMon]_vars

\* C40: once no descriptor is stuck or stale and the quarantined and the
\* awaiting descriptors are fewer than their thresholds, run_ralph_checks
\* creates no alert, however many alert files earlier runs have written.
C40_AlertsDoNotFeedBack ==
    [][(/\ RunRalphChecks
        /\ vault.stuck = 0
        /\ vault.stale = 0
        /\ vault.quarantine < HIGH_QUARANTINE_COUNT
        /\ vault.approval < HIGH_APPROVAL_BACKLOG)
          => alerts_created' = {}]_vars

\* ------------------------------------------------------------------------
\* Specification of the descriptor files
\* ------------------------------------------------------------------------

\* SpecFs: the engines run their handlers file operation by file operation,
\* next to each other, to the human and to the readers of Needs_Action.
NextFs ==
    \/ \E e \in Engines, t \in Tasks : FsClaim(e, t)
    \/ \E e \in Engines : FsFinish(e)
    \/ \E e \in Engines, t \in Tasks : FsPoll(e, t)
    \/ \E e \in Engines : FsReadText(e)
    \/ \E e \in Engines : FsOpen(e)
    \/ \E e \in Engines : FsWrite(e)
    \/ \E t \in Tasks : FsHumanMove(t)
    \/ \E t \in Tasks : FsObserve(t)

SpecFs == InitHealth /\ [][NextFs]_vars

\* C35: a reader that reads a descriptor while an engine rewrites it finds
\* the whole old or the whole new content, never an empty file.
C35_RewriteNeverSeenHalfDone == "empty" \notin seen

\* C37: every task descriptor is in exactly one state directory.
C37_TaskConservation ==
    \A t \in Tasks : Cardinality({d \in Dirs : file[t][d] # "absent"}) = 1

\* ------------------------------------------------------------------------
\* Specification of the backoff of with_retry
\* ------------------------------------------------------------------------

\* SpecBackoff: calls of with_retry whose attempts fail with any retryable
\* category and any value of random.random().
NextBackoff ==
    \/ \E cat \in Categories, r \in 0..(RandSteps - 1) : RetrySleep(cat, r)
    \/ RetryReturn

SpecBackoff == InitHealth /\ [][NextBackoff]_vars

\* C36: the delay after failed attempt k of a retryable category is
\* min(base_delay * 2^(k-1), max_delay), times a factor in [0.5, 1] when
\* jitter is on: never above max_delay, never below half of the un-jittered
\* value, and the un-jittered delays are transient 2, 4, 8, 16, rate_limit
\* 30, 60, 120, component 10, 20, non-decreasing in k.
C36_BackoffDelay ==
    LET table == [transient |-> <<2, 4, 8, 16>>, rate_limit |-> <<30, 60, 120>>,
                  component |-> <<10, 20>>]
    IN \A k \in DOMAIN slept :
          LET s == slept[k] IN
          /\ s.attempt = k
          /\ s.cat \in DOMAIN table
          /\ k \in DOMAIN table[s.cat]
          /\ s.unjittered = table[s.cat][k]
          /\ s.delay <= s.unjittered * 2 * RandSteps
          /\ 2 * s.delay >= s.unjittered * 2 * RandSteps
          /\ s.delay <= max_delay(s.cat) * 2 * RandSteps
          /\ \A j \in 1..(k - 1) :
                slept[j].cat = s.cat => slept[j].unjittered <= s.unjittered

C36_Witness ==
    /\ Len(slept) = 4
    /\ slept[4].unjittered = 16
    /\ slept[4].delay < 16 * 2 * RandSteps
    /\ \E k \in DOMAIN slept : slept[k].cat = "rate_limit"

\* ------------------------------------------------------------------------
\* Specification of classify_error
\* ------------------------------------------------------------------------

\* SpecClassify: classify_error is called on any message.
InitClassify ==
    /\ LifeIdle
    /\ HealthInit
    /\ RalphInit
    /\ ScanInit
    /\ slept = <<>>
    /\ exc \in Messages
    /\ classified = "none"

NextClassify == Classify

SpecClassify == InitClassify /\ [][NextClassify]_vars

\* C38: classify_error returns the first category, in the order auth,
\* rate_limit, payment, permanent, component, of which the message holds a
\* keyword, and transient when it holds none.
C38_ClassifyPrecedence ==
    classified # "none" =>
       LET order == <<"auth", "rate_limit", "payment", "permanent", "component">>
           has(c) == \E i \in DOMAIN exc :
                        \/ c = "auth" /\ exc[i] = "401"
                        \/ c = "rate_limit" /\ exc[i] = "429"
                        \/ c = "payment" /\ exc[i] \in {"INVOICE", "payment"}
                        \/ c = "permanent" /\ exc[i] = "400"
                        \/ c = "component" /\ exc[i] = "503"
           present == {i \in DOMAIN order : has(order[i])}
       IN IF present = {} THEN classified = "transient"
          ELSE \E i \in present : /\ \A j \in present : i <= j
                                  /\ classified = order[i]

C38_Witness ==
    /\ classified = "rate_limit"
    /\ \E i \in DOMAIN exc : exc[i] = "429"
    /\ \E i \in DOMAIN exc : exc[i] = "INVOICE"

====
